---- MODULE Spec2Model ----
(***************************************************************************)
(* Session progression engine of the interactive-fiction client:           *)
(*   useGameState (the hook: game/session/scene identity, scene buffer,     *)
(*   network advances), GameTimeTracker (pause-aware elapsed time),         *)
(*   errorHandler (classification, validators, retryWithBackoff) and the    *)
(*   GamePage handlers that drive the hook.                                 *)
(*                                                                         *)
(* JavaScript values are records [k, n, s, keys]: k is the kind of value,   *)
(* n a numeric payload, s a string payload, keys the own keys of an object. *)
(* Promises are modelled by `ops`, the operations suspended at an await.    *)
(***************************************************************************)
EXTENDS Integers, Sequences, FiniteSets, TLC

\* ------------------------------------------------------------- bounds ---
\* The clock advances in steps of TickMs up to MaxTicks steps.
MaxTicks == 3
\* The page's scene cursor is only followed up to MaxCursor.
MaxCursor == 4
\* A tracker used on its own is followed for MaxClockSteps steps of ClockStepMs.
MaxClockSteps == 6
\* retryWithBackoff called on its own gets maxRetries arguments 0..MaxRetriesArg.
MaxRetriesArg == 3
\* clampEmotionValue called on its own gets numbers from -MaxOver to 100 + MaxOver.
MaxOver == 3
\* Overlapping hook calls are followed up to MaxOps calls in flight.
MaxOps == 2


\* ------------------------------------------------------ JavaScript values
Num(x) == [k |-> "number", n |-> x, s |-> "", keys |-> {}]
Str(x) == [k |-> "string", n |-> 0, s |-> x, keys |-> {}]
Obj(ks) == [k |-> "object", n |-> 0, s |-> "", keys |-> ks]
Null == [k |-> "null", n |-> 0, s |-> "", keys |-> {}]
Undefined == [k |-> "undefined", n |-> 0, s |-> "", keys |-> {}]
\* an array of `len` elements
Arr(len) == [k |-> "array", n |-> len, s |-> "", keys |-> {}]
\* the non-integer number tenths / 10 (tenths is not a multiple of 10)
Dec(tenths) == [k |-> "number", n |-> tenths, s |-> "/10", keys |-> {}]
NaN == [k |-> "number", n |-> 0, s |-> "NaN", keys |-> {}]

\* typeof v
TypeOf(v) == IF v.k \in {"null", "array"} THEN "object" ELSE v.k

\* Number.isInteger(v)
IsInteger(v) == v.k = "number" /\ v.s = ""

\* a number in tenths
Tenths(v) == IF v.s = "/10" THEN v.n ELSE v.n * 10

\* a < b on numbers (false when either is NaN)
LessThan(a, b) == a.s # "NaN" /\ b.s # "NaN" /\ Tenths(a) < Tenths(b)

\* !x || typeof x !== 'object' is false: x is an object or an array
IsObjectValue(x) == ~(x.k \in {"undefined", "null"}) /\ x.k \in {"object", "array"}

\* !v  (falsy values: undefined, null, 0, "")
Falsy(v) ==
    \/ v.k \in {"undefined", "null"}
    \/ v.k = "number" /\ v.n = 0
    \/ v.k = "string" /\ v.s = ""

\* a ?? b
Nullish(a, b) == IF a.k \in {"undefined", "null"} THEN b ELSE a

\* Number.prototype.toString for the selection ids the model uses
NumberToString(x) ==
    CASE x = 1 -> "1"
      [] x = 2 -> "2"
      [] x = 99 -> "99"
      [] OTHER -> "?"

\* ------------------------------------------------------------- emotions
EmotionFields == {"angry", "disgust", "fear", "happy", "sad", "surprise", "neutral"}

getDefaultEmotionData == [f \in EmotionFields |-> IF f = "neutral" THEN 100 ELSE 0]

\* the emotion vector a caller supplies (happy = 100)
mockEmotionData == [f \in EmotionFields |-> IF f = "happy" THEN 100 ELSE 0]

NoEmotion == [f \in EmotionFields |-> 0]

\* the `emotion` argument: omitted, null, or a vector
EmotionArg(kind, vec) == [k |-> kind, e |-> vec]
EmotionArgs ==
    { EmotionArg("undefined", NoEmotion),
      EmotionArg("null", NoEmotion),
      EmotionArg("object", mockEmotionData) }

\* ---------------------------------------------------------------- errors
GameErrorCode ==
    { "INVALID_SCENE", "MISSING_SESSION", "INVALID_CHOICE", "INVALID_SCENE_TYPE",
      "NETWORK_ERROR", "AUTH_ERROR", "VALIDATION_ERROR", "SERVER_ERROR",
      "UNKNOWN_ERROR" }

\* ERROR_MESSAGES: one fixed message per code (named after the code)
getErrorMessage(code) ==
    IF code \in GameErrorCode THEN Str(code) ELSE Str("UNKNOWN_ERROR")

\* an exception value: cls is the class, status the ApiError status,
\* code/arg the GameStateError code and the value it was built from,
\* fetch whether the message contains "fetch"
Exception(cls, status, code, arg, fetch) ==
    [cls |-> cls, status |-> status, code |-> code, arg |-> arg, fetch |-> fetch]

ApiError(status) == Exception("ApiError", status, "", Undefined, FALSE)
GameStateError(code, arg) == Exception("GameStateError", Undefined, code, arg, FALSE)
AuthRequiredError == Exception("Error", Undefined, "", Undefined, FALSE)
NoError == Exception("none", Undefined, "", Undefined, FALSE)

createInvalidSceneTypeError(sceneType) == GameStateError("INVALID_SCENE_TYPE", sceneType)
createMissingSessionError == GameStateError("MISSING_SESSION", Undefined)
createInvalidSceneError == GameStateError("INVALID_SCENE", Undefined)
createInvalidChoiceError(selectionId) == GameStateError("INVALID_CHOICE", Num(selectionId))

classifyApiError_AnyFetchMessage(error) ==
    IF error.cls = "ApiError" /\ Falsy(error.status) THEN "NETWORK_ERROR"
    ELSE IF error.cls = "ApiError" /\ error.status.n \in {401, 403} THEN "AUTH_ERROR"
    ELSE IF error.cls = "ApiError" /\ error.status.n \in {422, 400} THEN "VALIDATION_ERROR"
    ELSE IF error.cls = "ApiError" /\ error.status.n >= 500 THEN "SERVER_ERROR"
    ELSE IF error.fetch THEN "NETWORK_ERROR"
    ELSE "UNKNOWN_ERROR"

classifyApiError_NoFetchRule(error) ==
    IF error.cls = "ApiError" /\ Falsy(error.status) THEN "NETWORK_ERROR"
    ELSE IF error.cls = "ApiError" /\ error.status.n \in {401, 403} THEN "AUTH_ERROR"
    ELSE IF error.cls = "ApiError" /\ error.status.n \in {422, 400} THEN "VALIDATION_ERROR"
    ELSE IF error.cls = "ApiError" /\ error.status.n >= 500 THEN "SERVER_ERROR"
    ELSE "UNKNOWN_ERROR"

classifyApiError(error) ==
    IF error.cls = "ApiError" /\ Falsy(error.status) THEN "NETWORK_ERROR"
    ELSE IF error.cls = "ApiError" /\ error.status.n \in {401, 403} THEN "AUTH_ERROR"
    ELSE IF error.cls = "ApiError" /\ error.status.n \in {422, 400} THEN "VALIDATION_ERROR"
    ELSE IF error.cls = "ApiError" /\ error.status.n >= 500 THEN "SERVER_ERROR"
    ELSE IF error.cls = "TypeError" /\ error.fetch THEN "NETWORK_ERROR"
    ELSE "UNKNOWN_ERROR"

handleApiError(error) == getErrorMessage(classifyApiError(error))

isRecoverableError(error) ==
    classifyApiError(error) \in {"NETWORK_ERROR", "SERVER_ERROR"}

\* ------------------------------------------------------------ validators
Scene(id, type, dialogue, selections, character) ==
    [k |-> "object", scene_id |-> id, type |-> type, dialogue |-> dialogue,
     selections |-> selections, character_filename |-> character]

\* a value of another kind (null, undefined, a string, an array) where a
\* scene is expected; its fields read as undefined
NotAScene(kind) ==
    [k |-> kind, scene_id |-> Undefined, type |-> Undefined, dialogue |-> Undefined,
     selections |-> Undefined, character_filename |-> Undefined]

validateSceneData(scene) ==
    /\ IsObjectValue(scene)
    /\ TypeOf(scene.scene_id) = "number"
    /\ TypeOf(scene.type) = "string"
    /\ scene.type.s \in {"dialogue", "selection", "selections"}
    /\ scene.type.s = "dialogue" =>
          (scene.dialogue.k \in {"null", "undefined"} \/ TypeOf(scene.dialogue) = "string")
    /\ scene.type.s \in {"selection", "selections"} =>
          (~Falsy(scene.selections) /\ TypeOf(scene.selections) = "object")
    /\ (scene.character_filename.k \in {"null", "undefined"}
          \/ TypeOf(scene.character_filename) = "string")

\* scenes is an array; scenesKind is "array"
Session(id, scenes, background) ==
    [k |-> "object", session_id |-> id, scenesKind |-> "array", scenes |-> scenes,
     background_url |-> background]

\* a session object whose scenes field is not an array (undefined, null, an
\* object, a string)
SessionWithoutArray(id, kind) ==
    [k |-> "object", session_id |-> id, scenesKind |-> kind, scenes |-> <<>>,
     background_url |-> Undefined]

\* a value of another kind where a session is expected
NotASession(kind) ==
    [k |-> kind, session_id |-> Undefined, scenesKind |-> "undefined", scenes |-> <<>>,
     background_url |-> Undefined]

validateSessionData(session) ==
    /\ IsObjectValue(session)
    /\ TypeOf(session.session_id) = "number"
    /\ session.scenesKind = "array"
    /\ Len(session.scenes) # 0
    /\ \A i \in 1..Len(session.scenes) : validateSceneData(session.scenes[i])

\* the property names an emotion object is read by (the canonical fields and
\* their aliases) and one name that is none of them
PropertyNames ==
    { "angry", "anger", "Angry", "Anger", "disgust", "Disgust", "fear", "Fear",
      "happy", "happiness", "Happy", "Happiness", "sad", "sadness", "Sad", "Sadness",
      "surprise", "surprised", "Surprise", "Surprised", "neutral", "Neutral", "extra" }

\* a value read as an emotion object: kind is what typeof / null tell about
\* it, props its own properties (Undefined for a property it does not have)
JsObject(kind, props) == [k |-> kind, props |-> props]

NoProps == [key \in PropertyNames |-> Undefined]

validateEmotionData(emotion) ==
    /\ IsObjectValue(emotion)
    /\ \A field \in EmotionFields :
          ~ \/ TypeOf(emotion.props[field]) # "number"
            \/ LessThan(emotion.props[field], Num(0))
            \/ LessThan(Num(100), emotion.props[field])

\* ------------------------------------------------------- emotionUtils
\* Math.round: the nearest integer, halves going up
MathRound(v) ==
    IF v.s = "NaN" THEN NaN
    ELSE IF v.s = "/10" THEN Num((v.n + 5) \div 10)
    ELSE v

\* Math.min / Math.max of two numbers (NaN when either is NaN)
MathMin(a, b) ==
    IF a.s = "NaN" \/ b.s = "NaN" THEN NaN ELSE IF LessThan(b, a) THEN b ELSE a

MathMax(a, b) ==
    IF a.s = "NaN" \/ b.s = "NaN" THEN NaN ELSE IF LessThan(a, b) THEN b ELSE a

clampEmotionValue(value) == MathMax(Num(0), MathMin(Num(100), MathRound(value)))

\* the key lists normalizeEmotionData passes to getEmotionValue
Aliases ==
    [angry |-> <<"angry", "anger", "Angry", "Anger">>,
     disgust |-> <<"disgust", "Disgust">>,
     fear |-> <<"fear", "Fear">>,
     happy |-> <<"happy", "happiness", "Happy", "Happiness">>,
     sad |-> <<"sad", "sadness", "Sad", "Sadness">>,
     surprise |-> <<"surprise", "surprised", "Surprise", "Surprised">>,
     neutral |-> <<"neutral", "Neutral">>]

\* the helper of normalizeEmotionData: the first key whose value is a number
RECURSIVE getEmotionValue(_, _)
getEmotionValue(raw, keys) ==
    IF keys = <<>> THEN Num(0)
    ELSE IF TypeOf(raw.props[Head(keys)]) = "number"
         THEN clampEmotionValue(raw.props[Head(keys)])
         ELSE getEmotionValue(raw, Tail(keys))

normalizeEmotionData_CanonicalKeyOnly(raw) ==
    IF ~IsObjectValue(raw)
    THEN [f \in EmotionFields |-> Num(getDefaultEmotionData[f])]
    ELSE [f \in EmotionFields |-> getEmotionValue(raw, <<f>>)]

normalizeEmotionData(raw) ==
    IF ~IsObjectValue(raw)
    THEN [f \in EmotionFields |-> Num(getDefaultEmotionData[f])]
    ELSE [f \in EmotionFields |-> getEmotionValue(raw, Aliases[f])]

\* ------------------------------------------------------- GameTimeTracker
NoTime == -1

TrackerInitial == [startTime |-> NoTime, pausedTime |-> 0, lastPauseStart |-> NoTime]

TrackerStart_KeepsPaused(t, clock) ==
    [startTime |-> clock, pausedTime |-> t.pausedTime, lastPauseStart |-> NoTime]

TrackerStart(t, clock) == [startTime |-> clock, pausedTime |-> 0, lastPauseStart |-> NoTime]

TrackerPause_Repauses(t, clock) ==
    IF t.startTime = NoTime THEN t
    ELSE [t EXCEPT !.lastPauseStart = clock]

TrackerPause(t, clock) ==
    IF t.startTime = NoTime THEN t
    ELSE IF t.lastPauseStart # NoTime THEN t
    ELSE [t EXCEPT !.lastPauseStart = clock]

TrackerResume(t, clock) ==
    IF t.lastPauseStart = NoTime THEN t
    ELSE [t EXCEPT !.pausedTime = t.pausedTime + (clock - t.lastPauseStart),
                   !.lastPauseStart = NoTime]

\* milliseconds in one second of elapsed time
MsPerSecond == 1000

\* Math.floor(x / 1000)
FloorDiv1000(x) == x \div MsPerSecond

getElapsedSeconds_IgnoresCurrentPause(t, clock) ==
    IF t.startTime = NoTime THEN 0
    ELSE FloorDiv1000((clock - t.startTime) - t.pausedTime)

getElapsedSeconds(t, clock) ==
    IF t.startTime = NoTime THEN 0
    ELSE LET totalElapsed == clock - t.startTime
             currentPauseDuration ==
                 IF t.lastPauseStart # NoTime THEN clock - t.lastPauseStart ELSE 0
             activeTime == totalElapsed - t.pausedTime - currentPauseDuration
         IN  FloorDiv1000(activeTime)

getElapsedSecondsCall_FoldsPause(t, clock) ==
    [tracker |-> IF t.lastPauseStart # NoTime
                 THEN [t EXCEPT !.pausedTime = t.pausedTime + (clock - t.lastPauseStart),
                                !.lastPauseStart = clock]
                 ELSE t,
     value |-> getElapsedSeconds(t, clock)]

\* one call of getElapsedSeconds(): the fields it leaves and the value it returns
getElapsedSecondsCall(t, clock) == [tracker |-> t, value |-> getElapsedSeconds(t, clock)]

TrackerReset_KeepsStart(t) == [t EXCEPT !.pausedTime = 0, !.lastPauseStart = NoTime]

TrackerReset(t) == TrackerInitial

\* The Accumulator seen from outside: Unstarted until start(), Running, or
\* Paused between pause() and resume(); activeMs is the time it has spent
\* Running since the latest start().
AccumulatorInitial == [state |-> "Unstarted", activeMs |-> 0]

AccumulatorStart(a) == [state |-> "Running", activeMs |-> 0]

AccumulatorPause(a) == IF a.state = "Running" THEN [a EXCEPT !.state = "Paused"] ELSE a

AccumulatorResume(a) == IF a.state = "Paused" THEN [a EXCEPT !.state = "Running"] ELSE a

AccumulatorReset(a) == AccumulatorInitial

\* d milliseconds pass
AccumulatorElapse(a, d) ==
    IF a.state = "Running" THEN [a EXCEPT !.activeMs = a.activeMs + d] ELSE a

\* ------------------------------------------------------- retryWithBackoff
maxRetries == 3
initialDelay == 1000

\* one tick of the clock lasts as long as the base retry delay
TickMs == initialDelay

BackoffDelay_StartsDoubled(delay0, attempt) == delay0 * (2 ^ (attempt + 1))

\* initialDelay * Math.pow(2, attempt)
BackoffDelay(delay0, attempt) == delay0 * (2 ^ attempt)

\* the delay awaited after failed attempt `attempt` (0-based), default arguments
RetryDelay(attempt) == BackoffDelay(initialDelay, attempt)

CatchDecision_RetriesEverything(error, attempt, retries) ==
    IF attempt < retries - 1 THEN "wait" ELSE "throw"

CatchDecision_OneAttemptShort(error, attempt, retries) ==
    IF ~isRecoverableError(error) THEN "throw"
    ELSE IF attempt < retries - 2 THEN "wait"
    ELSE "throw"

\* what the catch block of the loop does with a failure of attempt `attempt`:
\* "throw" rethrows it (at once when it is not a network or server error,
\* through `throw lastError` after the last attempt), "wait" awaits the
\* backoff delay before the next attempt
CatchDecision(error, attempt, retries) ==
    IF ~isRecoverableError(error) THEN "throw"
    ELSE IF attempt < retries - 1 THEN "wait"
    ELSE "throw"

\* the catch block with the default arguments
RetryDecision(error, attempt) == CatchDecision(error, attempt, maxRetries)

\* ------------------------------------------------------ transport payloads
D1 == Scene(Num(1), Str("dialogue"), Str("Welcome"), Undefined, Null)
D2 == Scene(Num(2), Str("dialogue"), Null, Undefined, Null)
S3 == Scene(Num(3), Str("selections"), Str("What will you do?"),
            Obj({"1", "2"}), Str("char1.png"))
\* a dialogue scene whose dialogue is a number: fails validateSceneData
X4 == Scene(Num(4), Str("dialogue"), Num(5), Undefined, Null)
NoScene == NotAScene("undefined")

SceneLists ==
    { <<>>, <<D1>>, <<S3>>, <<X4>>, <<D1, D2>>, <<D1, S3>>, <<S3, D1>>, <<D2, X4>> }

Backgrounds == { Undefined, Str("/bg.png") }

NextSceneResponses ==
    { Session(Num(sid), l, b) : sid \in {1, 2}, l \in SceneLists, b \in Backgrounds }

OtherSession == Session(Num(2), <<S3>>, Str("/other.png"))

SessionLists ==
    { <<>>, <<Session(Str("one"), <<D1>>, Undefined)>> }
    \cup { <<Session(Num(1), l, b)>> : l \in SceneLists, b \in Backgrounds }
    \cup { <<Session(Num(1), l, Undefined), OtherSession>> : l \in SceneLists }

CreateGameResponse(id, sessions) == [game_id |-> id, sessions |-> sessions]

CreateGameResponses ==
    { CreateGameResponse(Num(g), ss) : g \in {100, 101}, ss \in SessionLists }

NoResponse == [none |-> TRUE]

\* what apiRequest rejects with: an ApiError without status (fetch failed)
\* or with the HTTP status of the response
TransportFailures ==
    { ApiError(Undefined), ApiError(Num(401)), ApiError(Num(500)), ApiError(Num(404)) }

SelectionIds == {1, 99}

\* one invocation of a gameServiceV2 function
Request(kind, gameId, sessionId, sceneId, selectionId, emotion, time) ==
    [kind |-> kind, gameId |-> gameId, sessionId |-> sessionId, sceneId |-> sceneId,
     selectionId |-> selectionId, emotion |-> emotion, time |-> time]

CreateRequest == Request("createGame", Null, Null, Null, Null, NoEmotion, 0)
NoCall == Request("none", Null, Null, Null, Null, NoEmotion, 0)

\* ----------------------------------------------------------- useGameState
initialGameState ==
    [gameId |-> Null, sessionId |-> Null, currentSceneId |-> Null, scenes |-> <<>>,
     currentSceneIndex |-> 0, backgroundUrl |-> Null, isLoading |-> FALSE,
     error |-> Null]

\* scenes[currentSceneIndex] ?? null   (NoScene stands for null)
getCurrentScene(gs) ==
    IF gs.currentSceneIndex + 1 \in 1..Len(gs.scenes)
    THEN gs.scenes[gs.currentSceneIndex + 1]
    ELSE NoScene

isLastScene(gs) == gs.currentSceneIndex >= Len(gs.scenes) - 1

hasChoices(gs) ==
    /\ getCurrentScene(gs).type.s \in {"selection", "selections"}
    /\ ~Falsy(getCurrentScene(gs).selections)

\* setGameState(prev => ({...prev, isLoading: true, error: null}))
LoadingState(prev) == [prev EXCEPT !.isLoading = TRUE, !.error = Null]

FailedState_ClearsBuffer(prev, error) ==
    [prev EXCEPT !.isLoading = FALSE, !.error = handleApiError(error),
                 !.scenes = <<>>, !.currentSceneId = Null]

\* the catch block: setGameState(prev => ({...prev, isLoading: false, error}))
FailedState(prev, error) ==
    [prev EXCEPT !.isLoading = FALSE, !.error = handleApiError(error)]

CheckCreateResponse_WrongError(response) ==
    IF Len(response.sessions) = 0 THEN createInvalidSceneError
    ELSE IF ~validateSessionData(response.sessions[1]) THEN createMissingSessionError
    ELSE IF ~validateSceneData(response.sessions[1].scenes[1]) THEN createInvalidSceneError
    ELSE NoError

\* createNewGame: the checks made on a resolved response
CheckCreateResponse(response) ==
    IF Len(response.sessions) = 0 THEN createMissingSessionError
    ELSE IF ~validateSessionData(response.sessions[1]) THEN createMissingSessionError
    ELSE IF ~validateSceneData(response.sessions[1].scenes[1]) THEN createInvalidSceneError
    ELSE NoError

CreatedState_LastSession(response) ==
    LET firstSession == response.sessions[Len(response.sessions)]
    IN  [gameId |-> response.game_id,
         sessionId |-> firstSession.session_id,
         currentSceneId |-> firstSession.scenes[1].scene_id,
         scenes |-> firstSession.scenes,
         currentSceneIndex |-> 0,
         backgroundUrl |-> Nullish(firstSession.background_url, Null),
         isLoading |-> FALSE,
         error |-> Null]

\* createNewGame: the state set on success
CreatedState(response) ==
    LET firstSession == response.sessions[1]
    IN  [gameId |-> response.game_id,
         sessionId |-> firstSession.session_id,
         currentSceneId |-> firstSession.scenes[1].scene_id,
         scenes |-> firstSession.scenes,
         currentSceneIndex |-> 0,
         backgroundUrl |-> Nullish(firstSession.background_url, Null),
         isLoading |-> FALSE,
         error |-> Null]

RestartedTracker_OnlyFirstGame(t, clock) ==
    IF t.startTime = NoTime THEN TrackerStart(t, clock) ELSE t

\* createNewGame: timeTrackerRef.current.reset(); timeTrackerRef.current.start()
RestartedTracker(t, clock) == TrackerStart(TrackerReset(t), clock)

CheckNextSceneResponse_SkipsSceneCheck(response) ==
    IF Len(response.scenes) = 0 THEN createInvalidSceneError
    ELSE NoError

\* proceedToNextScene / selectChoice: the checks made on a resolved response
CheckNextSceneResponse(response) ==
    IF Len(response.scenes) = 0 THEN createInvalidSceneError
    ELSE IF ~validateSceneData(response.scenes[1]) THEN createInvalidSceneError
    ELSE NoError

AdvancedState_DropsBackground(prev, response) ==
    [prev EXCEPT !.sessionId = response.session_id,
                 !.scenes = response.scenes,
                 !.currentSceneId = response.scenes[1].scene_id,
                 !.currentSceneIndex = 0,
                 !.backgroundUrl = Nullish(response.background_url, Null),
                 !.isLoading = FALSE,
                 !.error = Null]

\* proceedToNextScene / selectChoice: the state set on success
AdvancedState(prev, response) ==
    [prev EXCEPT !.sessionId = response.session_id,
                 !.scenes = response.scenes,
                 !.currentSceneId = response.scenes[1].scene_id,
                 !.currentSceneIndex = 0,
                 !.backgroundUrl = Nullish(response.background_url, prev.backgroundUrl),
                 !.isLoading = FALSE,
                 !.error = Null]

EmotionOrDefault_OnlyUndefined(emotion) ==
    IF emotion.k = "undefined" THEN getDefaultEmotionData ELSE emotion.e

\* emotion ?? getDefaultEmotionData()
EmotionOrDefault(emotion) ==
    IF emotion.k \in {"undefined", "null"} THEN getDefaultEmotionData ELSE emotion.e

CheckProceed_NoTypeCheck(gs) ==
    IF gs.gameId = Null \/ gs.sessionId = Null \/ gs.currentSceneId = Null
    THEN createInvalidSceneError
    ELSE NoError

\* the checks proceedToNextScene makes before it touches the state
CheckProceed(gs) ==
    IF gs.gameId = Null \/ gs.sessionId = Null \/ gs.currentSceneId = Null
    THEN createInvalidSceneError
    ELSE IF getCurrentScene(gs) # NoScene /\ getCurrentScene(gs).type.s # "dialogue"
    THEN createInvalidSceneTypeError(getCurrentScene(gs).type)
    ELSE NoError

CheckSelect_NoChoiceCheck(gs, selectionId) ==
    IF gs.gameId = Null \/ gs.sessionId = Null \/ gs.currentSceneId = Null
    THEN createInvalidSceneError
    ELSE IF getCurrentScene(gs) = NoScene THEN createInvalidSceneError
    ELSE IF getCurrentScene(gs).type.s \notin {"selection", "selections"}
    THEN createInvalidSceneTypeError(getCurrentScene(gs).type)
    ELSE NoError

\* the checks selectChoice makes before it touches the state
CheckSelect(gs, selectionId) ==
    IF gs.gameId = Null \/ gs.sessionId = Null \/ gs.currentSceneId = Null
    THEN createInvalidSceneError
    ELSE IF getCurrentScene(gs) = NoScene THEN createInvalidSceneError
    ELSE IF getCurrentScene(gs).type.s \notin {"selection", "selections"}
    THEN createInvalidSceneTypeError(getCurrentScene(gs).type)
    ELSE IF Falsy(getCurrentScene(gs).selections)
            \/ NumberToString(selectionId) \notin getCurrentScene(gs).selections.keys
    THEN createInvalidChoiceError(selectionId)
    ELSE NoError

ProceedRequest_TimeInMs(gs, emotion, t, clock) ==
    Request("generateNextScene", gs.gameId, gs.sessionId, gs.currentSceneId, Null,
            EmotionOrDefault(emotion), clock - t.startTime)

\* the generateNextScene call built by proceedToNextScene
ProceedRequest(gs, emotion, t, clock) ==
    Request("generateNextScene", gs.gameId, gs.sessionId, gs.currentSceneId, Null,
            EmotionOrDefault(emotion), getElapsedSeconds(t, clock))

\* the generateSceneAfterSelection call built by selectChoice
SelectRequest(gs, selectionId, emotion, t, clock) ==
    Request("generateSceneAfterSelection", gs.gameId, gs.sessionId, gs.currentSceneId,
            Num(selectionId), EmotionOrDefault(emotion), getElapsedSeconds(t, clock))

\* ------------------------------------------------------------------ state
VARIABLES
    gameState,      \* useGameState: the GameState held by useState
    timeTracker,    \* useGameState: timeTrackerRef.current
    accumulator,    \* the Accumulator state and active time that timeTracker stands for
    now,            \* Date.now()
    accessToken,    \* useAuth().accessToken
    ops,            \* the hook calls suspended in retryWithBackoff
    driver,         \* who uses the hook: "page" (GamePage) or "api" (any other caller)
    page,           \* GamePage: mode, isCreatingGame, showStartConfirm, currentSceneIndex
    last,           \* what the latest step did: handler, result, exception thrown,
                    \* transport call made, response received
    timeCall,       \* the latest direct call of a GameTimeTracker method: the fields
                    \* before the call and the value returned
    retry,          \* one call of retryWithBackoff on an arbitrary operation
    fnCall          \* one call of a pure function of errorHandler or emotionUtils:
                    \* the function, its argument and the value it returned

\* the variables the hook and the page never touch
aux == <<timeCall, retry, fnCall>>

vars ==
    <<gameState, timeTracker, accumulator, now, accessToken, ops, driver, page, last,
      timeCall, retry, fnCall>>

initialPage ==
    [mode |-> "create", isCreatingGame |-> FALSE, showStartConfirm |-> FALSE,
     currentSceneIndex |-> 0]

\* the arguments of a hook call
Args(selectionId, emotion) == [selectionId |-> selectionId, emotion |-> emotion]
NoArgs == Args(0, EmotionArg("undefined", NoEmotion))

\* h: the function that ran; r: how it ended ("threw" before touching the
\* state, "started" its first transport call, "backoff", "retried",
\* "resolved", "rejected", or "done"/"local"/"noop" for synchronous handlers);
\* via: who called it; args: its arguments; thrown: the exception it threw;
\* sent: the transport call it made; recv: the response it received;
\* calls: the transport calls the hook call has made so far
Step(h, r, via, args, thrown, sent, recv, calls) ==
    [h |-> h, r |-> r, via |-> via, args |-> args, thrown |-> thrown, sent |-> sent,
     recv |-> recv, calls |-> calls]

\* a hook call suspended in retryWithBackoff: `req` is the call the closure
\* passed to retryWithBackoff makes, attempt the loop variable, phase "pending"
\* while fn() is awaited and "delay" while the backoff timer runs (until `due`)
Op(h, via, req, attempt, phase, due, calls) ==
    [h |-> h, via |-> via, req |-> req, attempt |-> attempt, phase |-> phase,
     due |-> due, calls |-> calls]

\* no GameTimeTracker method has been called directly
NoTimeCall == [before |-> TrackerInitial, value |-> 0]

\* one call retryWithBackoff(fn, retries, delay0): phase is "idle" before the
\* call, "calling" while fn() is awaited, "waiting" while the backoff timer
\* runs (until `due`), "returned" or "thrown" once it has settled; errors are
\* the exceptions fn rejected with, delays the timeouts awaited, in order
RetryCall(phase, retries, delay0, attempt, invocations, errors, delays, due, value, thrown) ==
    [phase |-> phase, maxRetries |-> retries, initialDelay |-> delay0, attempt |-> attempt,
     invocations |-> invocations, errors |-> errors, delays |-> delays, due |-> due,
     value |-> value, thrown |-> thrown]

\* retryWithBackoff has not been called
NoRetry == RetryCall("idle", 0, 0, 0, 0, <<>>, <<>>, 0, 0, NoError)

\* no pure function has been called
NoFnCall == [fn |-> "none"]

RemoveAt(seq, i) == SubSeq(seq, 1, i - 1) \o SubSeq(seq, i + 1, Len(seq))

Init ==
    /\ gameState = initialGameState
    /\ timeTracker = TrackerInitial
    /\ accumulator = AccumulatorInitial
    /\ timeCall = NoTimeCall
    /\ retry = NoRetry
    /\ fnCall = NoFnCall
    /\ now = 0
    /\ accessToken \in {Null, Str("mock-access-token")}
    /\ ops = <<>>
    /\ driver \in {"page", "api"}
    /\ page = initialPage
    /\ last = Step("init", "done", "api", NoArgs, NoError, NoCall, NoResponse, 0)

\* time passes
Tick ==
    /\ now < MaxTicks * TickMs
    /\ now' = now + TickMs
    /\ accumulator' = AccumulatorElapse(accumulator, TickMs)
    /\ last' = Step("tick", "done", "api", NoArgs, NoError, NoCall, NoResponse, 0)
    /\ UNCHANGED <<gameState, timeTracker, accessToken, aux, ops, driver, page>>

\* a hook function throws before it touches the state
Throw(h, via, args, error) ==
    /\ last' = Step(h, "threw", via, args, error, NoCall, NoResponse, 0)
    /\ UNCHANGED <<gameState, timeTracker, accumulator, now, accessToken, aux, ops, driver>>

\* a hook function sets the loading flag and makes the first transport call
Start(h, via, args, req) ==
    /\ gameState' = LoadingState(gameState)
    /\ ops' = Append(ops, Op(h, via, req, 0, "pending", 0, 1))
    /\ last' = Step(h, "started", via, args, NoError, req, NoResponse, 1)
    /\ UNCHANGED <<timeTracker, accumulator, now, accessToken, aux, driver>>

\* createNewGame(data), up to its first await
createNewGame(via) ==
    IF Falsy(accessToken)
    THEN Throw("createNewGame", via, NoArgs, AuthRequiredError)
    ELSE Start("createNewGame", via, NoArgs, CreateRequest)

\* proceedToNextScene(emotion), up to its first await
proceedToNextScene(emotion, via) ==
    IF Falsy(accessToken)
    THEN Throw("proceedToNextScene", via, Args(0, emotion), AuthRequiredError)
    ELSE IF CheckProceed(gameState) # NoError
    THEN Throw("proceedToNextScene", via, Args(0, emotion), CheckProceed(gameState))
    ELSE Start("proceedToNextScene", via, Args(0, emotion),
               ProceedRequest(gameState, emotion, timeTracker, now))

\* selectChoice(selectionId, emotion), up to its first await
selectChoice(selectionId, emotion, via) ==
    IF Falsy(accessToken)
    THEN Throw("selectChoice", via, Args(selectionId, emotion), AuthRequiredError)
    ELSE IF CheckSelect(gameState, selectionId) # NoError
    THEN Throw("selectChoice", via, Args(selectionId, emotion),
               CheckSelect(gameState, selectionId))
    ELSE Start("selectChoice", via, Args(selectionId, emotion),
               SelectRequest(gameState, selectionId, emotion, timeTracker, now))

\* resetGame()
resetGame ==
    /\ gameState' = initialGameState
    /\ timeTracker' = TrackerReset(timeTracker)
    /\ accumulator' = AccumulatorReset(accumulator)
    /\ last' = Step("resetGame", "done", "api", NoArgs, NoError, NoCall, NoResponse, 0)
    /\ UNCHANGED <<now, accessToken, aux, ops, driver, page>>

\* GamePage: what the handler that awaited the hook call does once it settles
PageAfter(op, ok) ==
    IF op.via # "page" THEN page
    ELSE IF op.h = "createNewGame"
    THEN IF ok THEN [page EXCEPT !.isCreatingGame = FALSE, !.showStartConfirm = TRUE]
         ELSE [page EXCEPT !.isCreatingGame = FALSE]
    ELSE IF ok THEN [page EXCEPT !.currentSceneIndex = 0]
    ELSE page

\* the hook call leaves retryWithBackoff with an exception, or throws one
\* itself after the response: the catch block stores the message and rethrows
Reject(i, error, recv) ==
    /\ gameState' = FailedState(gameState, error)
    /\ ops' = RemoveAt(ops, i)
    /\ page' = PageAfter(ops[i], FALSE)
    /\ last' = Step(ops[i].h, "rejected", ops[i].via, NoArgs, error, NoCall, recv, ops[i].calls)
    /\ UNCHANGED <<timeTracker, accumulator, now, accessToken, aux, driver>>

\* the transport resolves the pending call of ops[i] with `response`
TransportResolve(i, response) ==
    /\ ops[i].phase = "pending"
    /\ IF ops[i].h = "createNewGame"
       THEN /\ response \in CreateGameResponses
            /\ IF CheckCreateResponse(response) # NoError
               THEN Reject(i, CheckCreateResponse(response), response)
               ELSE /\ gameState' = CreatedState(response)
                    /\ timeTracker' = RestartedTracker(timeTracker, now)
                    /\ accumulator' = AccumulatorStart(AccumulatorReset(accumulator))
                    /\ ops' = RemoveAt(ops, i)
                    /\ page' = PageAfter(ops[i], TRUE)
                    /\ last' = Step(ops[i].h, "resolved", ops[i].via, NoArgs, NoError, NoCall,
                                    response, ops[i].calls)
                    /\ UNCHANGED <<now, accessToken, aux, driver>>
       ELSE /\ response \in NextSceneResponses
            /\ IF CheckNextSceneResponse(response) # NoError
               THEN Reject(i, CheckNextSceneResponse(response), response)
               ELSE /\ gameState' = AdvancedState(gameState, response)
                    /\ ops' = RemoveAt(ops, i)
                    /\ page' = PageAfter(ops[i], TRUE)
                    /\ last' = Step(ops[i].h, "resolved", ops[i].via, NoArgs, NoError, NoCall,
                                    response, ops[i].calls)
                    /\ UNCHANGED <<timeTracker, accumulator, now, accessToken, aux, driver>>

\* the transport rejects the pending call of ops[i] with `error`
TransportReject(i, error) ==
    /\ ops[i].phase = "pending"
    /\ IF RetryDecision(error, ops[i].attempt) = "wait"
       THEN /\ ops' = [ops EXCEPT ![i].phase = "delay",
                                  ![i].due = now + RetryDelay(ops[i].attempt)]
            /\ last' = Step(ops[i].h, "backoff", ops[i].via, NoArgs, NoError, NoCall,
                            NoResponse, ops[i].calls)
            /\ UNCHANGED <<gameState, timeTracker, accumulator, now, accessToken, aux, driver, page>>
       ELSE Reject(i, error, NoResponse)

RetriedRequest_RereadsTime(op, t, clock) ==
    [op.req EXCEPT !.time = getElapsedSeconds(t, clock)]

\* what the closure passed to retryWithBackoff sends on a later attempt: the
\* identifiers, emotion and time its caller computed before the first one
RetriedRequest(op, t, clock) == op.req

\* the backoff timer of ops[i] fires: the loop makes the next attempt
DelayElapsed(i) ==
    /\ ops[i].phase = "delay"
    /\ now >= ops[i].due
    /\ ops' = [ops EXCEPT ![i].phase = "pending",
                          ![i].attempt = ops[i].attempt + 1,
                          ![i].calls = ops[i].calls + 1]
    /\ last' = Step(ops[i].h, "retried", ops[i].via, NoArgs, NoError,
                    RetriedRequest(ops[i], timeTracker, now), NoResponse,
                    ops[i].calls + 1)
    /\ UNCHANGED <<gameState, timeTracker, accumulator, now, accessToken, aux, driver, page>>

\* --------------------------------------------------------------- GamePage
\* parseInt(choiceId, 10) for the keys of the selections the model uses
ParseInt(choiceId) ==
    CASE choiceId = "1" -> 1
      [] choiceId = "2" -> 2
      [] OTHER -> 0

\* the scene the page renders: gameState.scenes[currentSceneIndex] || gameState.scenes[0]
PageScene ==
    IF page.currentSceneIndex + 1 \in 1..Len(gameState.scenes)
    THEN gameState.scenes[page.currentSceneIndex + 1]
    ELSE IF Len(gameState.scenes) > 0 THEN gameState.scenes[1]
    ELSE NoScene

showChoices ==
    /\ PageScene.type.s \in {"selection", "selections"}
    /\ ~Falsy(PageScene.selections)

\* getCurrentEmotionData(): always a vector, the default one when no
\* expression is detected
PageEmotions ==
    { EmotionArg("object", getDefaultEmotionData), EmotionArg("object", mockEmotionData) }

PageStep(h, r) == Step(h, r, "page", NoArgs, NoError, NoCall, NoResponse, 0)

\* handleCreateGame, up to its await
handleCreateGame(formValid) ==
    /\ page.mode = "create" /\ ~page.isCreatingGame /\ ~page.showStartConfirm
    /\ IF ~formValid
       THEN /\ last' = PageStep("handleCreateGame", "noop")
            /\ UNCHANGED <<gameState, timeTracker, accumulator, now, accessToken, aux, ops, driver, page>>
       ELSE /\ createNewGame("page")
            /\ page' = [page EXCEPT !.isCreatingGame = ~Falsy(accessToken)]

handleStartCreatedGame ==
    /\ page.mode = "create" /\ page.showStartConfirm
    /\ page' = [page EXCEPT !.showStartConfirm = FALSE, !.currentSceneIndex = 0,
                            !.mode = "playing"]
    /\ last' = PageStep("handleStartCreatedGame", "done")
    /\ UNCHANGED <<gameState, timeTracker, accumulator, now, accessToken, aux, ops, driver>>

handleCancelStart ==
    /\ page.mode = "create" /\ page.showStartConfirm
    /\ page' = [page EXCEPT !.showStartConfirm = FALSE, !.mode = "create"]
    /\ last' = PageStep("handleCancelStart", "done")
    /\ UNCHANGED <<gameState, timeTracker, accumulator, now, accessToken, aux, ops, driver>>

\* the branch handleNextScene takes: "return" (no current scene), "local"
\* (move within the scenes array), "fetch" (proceedToNextScene) or "none"
NextSceneBranch(gs) ==
    IF getCurrentScene(gs) = NoScene THEN "return"
    ELSE IF ~isLastScene(gs) THEN "local"
    ELSE IF getCurrentScene(gs).type.s = "dialogue" THEN "fetch"
    ELSE "none"

\* handleNextScene (click on the overlay or the dialogue box, menu action
\* 'skip', auto-play timer), up to its await
handleNextScene(emotion) ==
    /\ page.mode = "playing"
    /\ gameState.isLoading \/ Len(gameState.scenes) > 0
    /\ CASE NextSceneBranch(gameState) = "local" ->
              /\ page.currentSceneIndex < MaxCursor
              /\ page' = [page EXCEPT !.currentSceneIndex = page.currentSceneIndex + 1]
              /\ last' = PageStep("handleNextScene", "local")
              /\ UNCHANGED <<gameState, timeTracker, accumulator, now, accessToken, aux, ops, driver>>
         [] NextSceneBranch(gameState) = "fetch" ->
              /\ proceedToNextScene(emotion, "page")
              /\ page' = page
         [] OTHER ->
              /\ last' = PageStep("handleNextScene", "noop")
              /\ UNCHANGED <<gameState, timeTracker, accumulator, now, accessToken, aux, ops, driver, page>>

\* handleChoiceSelect(choiceId) for a choice button the page renders, up to its await
handleChoiceSelect(choiceId, emotion) ==
    /\ page.mode = "playing"
    /\ ~gameState.isLoading /\ showChoices
    /\ choiceId \in PageScene.selections.keys
    /\ IF getCurrentScene(gameState) = NoScene
          \/ getCurrentScene(gameState).type.s \notin {"selection", "selections"}
       THEN /\ last' = PageStep("handleChoiceSelect", "noop")
            /\ UNCHANGED <<gameState, timeTracker, accumulator, now, accessToken, aux, ops, driver, page>>
       ELSE /\ selectChoice(ParseInt(choiceId), emotion, "page")
            /\ page' = page

\* ----------------------------------------------------------- specification
\* The caller starts a hook call only when none is in flight.
Serial == ops = <<>>

ApiCreate == driver = "api" /\ Serial /\ createNewGame("api") /\ page' = page
ApiProceed ==
    driver = "api" /\ Serial /\ \E e \in EmotionArgs : proceedToNextScene(e, "api") /\ page' = page
ApiSelect ==
    driver = "api" /\ Serial
    /\ \E id \in SelectionIds, e \in EmotionArgs : selectChoice(id, e, "api") /\ page' = page
ApiReset == driver = "api" /\ resetGame
PageCreate == driver = "page" /\ Serial /\ \E v \in BOOLEAN : handleCreateGame(v)
PageStart == driver = "page" /\ handleStartCreatedGame
PageCancel == driver = "page" /\ handleCancelStart
PageNext == driver = "page" /\ Serial /\ \E e \in PageEmotions : handleNextScene(e)
PageChoice ==
    driver = "page" /\ Serial
    /\ \E c \in {"1", "2"}, e \in PageEmotions : handleChoiceSelect(c, e)
Resolve ==
    \E i \in 1..Len(ops) :
        \E response \in CreateGameResponses \cup NextSceneResponses :
            TransportResolve(i, response)
Fail == \E i \in 1..Len(ops) : \E error \in TransportFailures : TransportReject(i, error)
Timer == \E i \in 1..Len(ops) : DelayElapsed(i)

Next ==
    \/ Tick
    \/ ApiCreate
    \/ ApiProceed
    \/ ApiSelect
    \/ ApiReset
    \/ PageCreate
    \/ PageStart
    \/ PageCancel
    \/ PageNext
    \/ PageChoice
    \/ Resolve
    \/ Fail
    \/ Timer

Spec == Init /\ [][Next]_vars

\* ------------------------------------------------- overlapping hook calls
\* The hook and the page without the assumption that a call is started only
\* when none is in flight: any caller may call the hook functions while
\* earlier calls are pending, and the page's menu and auto-play timer, which
\* the page renders and arms while gameState.isLoading is true, may run
\* handleNextScene then. The transport answers with one of a few payloads.
OverlapCreateResponses ==
    { CreateGameResponse(Num(100), <<Session(Num(1), l, Undefined)>>) : l \in {<<D1>>, <<D1, D2>>, <<S3>>} }

OverlapNextSceneResponses ==
    { Session(Num(2), l, Undefined) : l \in {<<>>, <<D2>>, <<S3>>} }

OverlapFailures == { ApiError(Undefined), ApiError(Num(401)) }

Room == Len(ops) < MaxOps

\* the emotion argument, which no overlap depends on, is left out by the
\* free caller and is the default vector on the page
OverlapCreate == driver = "api" /\ Room /\ createNewGame("api") /\ page' = page
OverlapProceed ==
    driver = "api" /\ Room
    /\ proceedToNextScene(EmotionArg("undefined", NoEmotion), "api") /\ page' = page
OverlapSelect ==
    driver = "api" /\ Room
    /\ \E id \in SelectionIds : selectChoice(id, EmotionArg("undefined", NoEmotion), "api")
    /\ page' = page

OverlapPageCreate == driver = "page" /\ Room /\ \E v \in BOOLEAN : handleCreateGame(v)

\* handleNextScene from the ClickableOverlay or the DialogueBox (rendered
\* only while gameState.isLoading is false), from handleMenuAction('skip')
\* (the GameMenu is rendered whatever isLoading is) or from the timer of the
\* auto-play effect
OverlapPageNext ==
    driver = "page" /\ Room /\ handleNextScene(EmotionArg("object", getDefaultEmotionData))

OverlapPageChoice ==
    driver = "page" /\ Room
    /\ \E c \in {"1", "2"} : handleChoiceSelect(c, EmotionArg("object", getDefaultEmotionData))

OverlapResolve ==
    \E i \in 1..Len(ops) :
        \E response \in OverlapCreateResponses \cup OverlapNextSceneResponses :
            /\ response \in CreateGameResponses \cup NextSceneResponses
            /\ TransportResolve(i, response)

OverlapFail == \E i \in 1..Len(ops) : \E error \in OverlapFailures : TransportReject(i, error)

OverlapNext ==
    \/ Tick
    \/ OverlapCreate
    \/ OverlapProceed
    \/ OverlapSelect
    \/ ApiReset
    \/ OverlapPageCreate
    \/ PageStart
    \/ PageCancel
    \/ OverlapPageNext
    \/ OverlapPageChoice
    \/ OverlapResolve
    \/ OverlapFail
    \/ Timer

OverlapSpec == Init /\ [][OverlapNext]_vars

\* ------------------------------------------- GameTimeTracker on its own
\* A GameTimeTracker instance whose methods are called directly, in any
\* order, while the clock advances in steps of ClockStepMs.
ClockStepMs == MsPerSecond \div 2

hookVars == <<gameState, accessToken, ops, driver, page, retry, fnCall>>

TrackerStep(h) == Step(h, "done", "tracker", NoArgs, NoError, NoCall, NoResponse, 0)

TimeCall(before, value) == [before |-> before, value |-> value]

TrackerInit ==
    /\ gameState = initialGameState
    /\ timeTracker = TrackerInitial
    /\ accumulator = AccumulatorInitial
    /\ timeCall = NoTimeCall
    /\ retry = NoRetry
    /\ fnCall = NoFnCall
    /\ now = 0
    /\ accessToken = Null
    /\ ops = <<>>
    /\ driver = "api"
    /\ page = initialPage
    /\ last = TrackerStep("new")

ClockAdvance ==
    /\ now < MaxClockSteps * ClockStepMs
    /\ now' = now + ClockStepMs
    /\ accumulator' = AccumulatorElapse(accumulator, ClockStepMs)
    /\ last' = TrackerStep("clock")
    /\ UNCHANGED <<timeTracker, timeCall, hookVars>>

CallStart ==
    /\ timeTracker' = TrackerStart(timeTracker, now)
    /\ accumulator' = AccumulatorStart(accumulator)
    /\ timeCall' = TimeCall(timeTracker, 0)
    /\ last' = TrackerStep("start")
    /\ UNCHANGED <<now, hookVars>>

CallPause ==
    /\ timeTracker' = TrackerPause(timeTracker, now)
    /\ accumulator' = AccumulatorPause(accumulator)
    /\ timeCall' = TimeCall(timeTracker, 0)
    /\ last' = TrackerStep("pause")
    /\ UNCHANGED <<now, hookVars>>

CallResume ==
    /\ timeTracker' = TrackerResume(timeTracker, now)
    /\ accumulator' = AccumulatorResume(accumulator)
    /\ timeCall' = TimeCall(timeTracker, 0)
    /\ last' = TrackerStep("resume")
    /\ UNCHANGED <<now, hookVars>>

CallGetElapsedSeconds ==
    /\ timeTracker' = getElapsedSecondsCall(timeTracker, now).tracker
    /\ timeCall' = TimeCall(timeTracker, getElapsedSecondsCall(timeTracker, now).value)
    /\ last' = TrackerStep("getElapsedSeconds")
    /\ UNCHANGED <<accumulator, now, hookVars>>

CallReset ==
    /\ timeTracker' = TrackerReset(timeTracker)
    /\ accumulator' = AccumulatorReset(accumulator)
    /\ timeCall' = TimeCall(timeTracker, 0)
    /\ last' = TrackerStep("reset")
    /\ UNCHANGED <<now, hookVars>>

TrackerNext ==
    \/ ClockAdvance
    \/ CallStart
    \/ CallPause
    \/ CallResume
    \/ CallGetElapsedSeconds
    \/ CallReset

TrackerSpec == TrackerInit /\ [][TrackerNext]_vars

\* ------------------------------------------- retryWithBackoff on its own
\* One call retryWithBackoff(fn, retries, delay0) on an operation fn that
\* resolves or rejects as it pleases.
RetryCounts == 0..MaxRetriesArg

InitialDelays == {ClockStepMs, initialDelay}

\* what fn may reject with: the transport failures, a 422, and a TypeError
\* whose message contains "fetch"
OperationFailures ==
    TransportFailures
        \cup {ApiError(Num(422)), Exception("TypeError", Undefined, "", Undefined, TRUE)}

OperationValues == {1, 2}

\* `throw lastError` when the loop body never ran
UndefinedThrown == Exception("undefined", Undefined, "", Undefined, FALSE)

RetryStep(r) == Step("retryWithBackoff", r, "retry", NoArgs, NoError, NoCall, NoResponse, 0)

nonRetryVars ==
    <<gameState, timeTracker, accumulator, accessToken, ops, driver, page, timeCall, fnCall>>

RetryInit ==
    /\ gameState = initialGameState
    /\ timeTracker = TrackerInitial
    /\ accumulator = AccumulatorInitial
    /\ timeCall = NoTimeCall
    /\ retry = NoRetry
    /\ fnCall = NoFnCall
    /\ now = 0
    /\ accessToken = Null
    /\ ops = <<>>
    /\ driver = "api"
    /\ page = initialPage
    /\ last = RetryStep("new")

\* retryWithBackoff(fn, retries, delay0) up to its first await
RetryBegin(retries, delay0) ==
    /\ retry.phase = "idle"
    /\ retry' = IF 0 < retries
                THEN RetryCall("calling", retries, delay0, 0, 1, <<>>, <<>>, 0, 0, NoError)
                ELSE RetryCall("thrown", retries, delay0, 0, 0, <<>>, <<>>, 0, 0,
                               UndefinedThrown)
    /\ last' = RetryStep(IF 0 < retries THEN "called" ELSE "thrown")
    /\ UNCHANGED <<now, nonRetryVars>>

\* fn() resolves: return await fn()
FnResolves(value) ==
    /\ retry.phase = "calling"
    /\ retry' = [retry EXCEPT !.phase = "returned", !.value = value]
    /\ last' = RetryStep("returned")
    /\ UNCHANGED <<now, nonRetryVars>>

\* fn() rejects: the catch block
FnRejects(error) ==
    /\ retry.phase = "calling"
    /\ IF CatchDecision(error, retry.attempt, retry.maxRetries) = "wait"
       THEN /\ retry' = [retry EXCEPT
                            !.phase = "waiting",
                            !.errors = Append(retry.errors, error),
                            !.delays = Append(retry.delays,
                                              BackoffDelay(retry.initialDelay, retry.attempt)),
                            !.due = now + BackoffDelay(retry.initialDelay, retry.attempt)]
            /\ last' = RetryStep("waiting")
       ELSE /\ retry' = [retry EXCEPT !.phase = "thrown",
                                      !.errors = Append(retry.errors, error),
                                      !.thrown = error]
            /\ last' = RetryStep("thrown")
    /\ UNCHANGED <<now, nonRetryVars>>

\* the timeout elapses: attempt++ and the next fn()
BackoffElapsed ==
    /\ retry.phase = "waiting"
    /\ now >= retry.due
    /\ retry' = [retry EXCEPT !.phase = "calling",
                              !.attempt = retry.attempt + 1,
                              !.invocations = retry.invocations + 1]
    /\ last' = RetryStep("retried")
    /\ UNCHANGED <<now, nonRetryVars>>

\* time passes while fn() or the timeout is awaited
RetryClock ==
    /\ retry.phase \in {"calling", "waiting"}
    /\ now < initialDelay * (2 ^ MaxRetriesArg)
    /\ now' = now + ClockStepMs
    /\ last' = RetryStep("clock")
    /\ UNCHANGED <<retry, nonRetryVars>>

RetryStart == \E retries \in RetryCounts, delay0 \in InitialDelays : RetryBegin(retries, delay0)
RetryResolve == \E value \in OperationValues : FnResolves(value)
RetryReject == \E error \in OperationFailures : FnRejects(error)

RetryNext ==
    \/ RetryStart
    \/ RetryResolve
    \/ RetryReject
    \/ BackoffElapsed
    \/ RetryClock

RetrySpec == RetryInit /\ [][RetryNext]_vars

\* ----------------------------------------------------------------- claims
AdvanceCalls == {"proceedToNextScene", "selectChoice"}

\* C1: a dialogue-advance or selection-advance transport call is made only
\* when the advance is invoked on the last scene of the buffer
\* (index = length - 1); at an earlier position no transport call is made.
C1_NetworkOnlyAtLastPosition ==
    (last.h \in AdvanceCalls /\ last.r = "started" /\ last.sent # NoCall)
        => gameState.currentSceneIndex = Len(gameState.scenes) - 1

\* C2: a local advance (taken when the buffer has scenes beyond the current
\* index) increments the index of the GameState by one and sets its
\* currentSceneId to the id of the scene at the new index, and changes
\* nothing else.
C2_LocalAdvanceMovesEngineIndex ==
    [][ (last'.h = "handleNextScene" /\ last'.r = "local")
          => /\ gameState'.currentSceneIndex = gameState.currentSceneIndex + 1
             /\ gameState'.currentSceneId
                    = gameState.scenes[gameState.currentSceneIndex + 2].scene_id
             /\ gameState' = [gameState EXCEPT
                                 !.currentSceneIndex = gameState'.currentSceneIndex,
                                 !.currentSceneId = gameState'.currentSceneId]
             /\ timeTracker' = timeTracker ]_vars

\* C3: whenever the buffer is non-empty, the index of the current scene (the
\* currentSceneIndex of the GameState and the scene cursor of the page) is
\* at least 0 and less than the buffer length.
C3_IndexWithinBuffer ==
    Len(gameState.scenes) > 0
        => /\ gameState.currentSceneIndex \in 0..(Len(gameState.scenes) - 1)
           /\ page.currentSceneIndex \in 0..(Len(gameState.scenes) - 1)

SelectionTypes == {"selection", "selections"}

\* a game exists and the caller is authenticated
HasGame(gs) ==
    /\ ~Falsy(accessToken)
    /\ gs.gameId # Null /\ gs.sessionId # Null /\ gs.currentSceneId # Null

\* C4: a network advance whose response has a non-empty scene array with a
\* valid first scene succeeds and leaves scenes = the response scenes,
\* index 0, currentSceneId = id of the first response scene, sessionId = the
\* response session id, backgroundUrl = the response background if present
\* else the previous one, gameId unchanged, isLoading false and error null.
C4_AdvanceSuccessState ==
    [][ (/\ last'.h \in AdvanceCalls
         /\ last'.recv # NoResponse
         /\ Len(last'.recv.scenes) > 0
         /\ validateSceneData(last'.recv.scenes[1]))
          => /\ last'.r = "resolved"
             /\ gameState'.scenes = last'.recv.scenes
             /\ gameState'.currentSceneIndex = 0
             /\ gameState'.currentSceneId = last'.recv.scenes[1].scene_id
             /\ gameState'.sessionId = last'.recv.session_id
             /\ gameState'.backgroundUrl =
                    IF last'.recv.background_url.k \in {"undefined", "null"}
                    THEN gameState.backgroundUrl
                    ELSE last'.recv.background_url
             /\ gameState'.gameId = gameState.gameId
             /\ gameState'.isLoading = FALSE
             /\ gameState'.error = Null ]_vars

\* C4 witness: an advance succeeded with a two-scene response that has no
\* background while the game had one.
C4_Witness ==
    /\ last.h \in AdvanceCalls /\ last.r = "resolved"
    /\ last.recv.background_url = Undefined
    /\ gameState.backgroundUrl = Str("/bg.png")
    /\ Len(gameState.scenes) = 2

\* C5: a network advance that fails (the retry policy gives up, the failure
\* is not retried, or the response is invalid) leaves gameId, sessionId,
\* currentSceneId, scenes, index and background as they were; only isLoading
\* (false) and error (set) differ. No step of the call changes those fields.
C5_AdvanceFailureKeepsState ==
    [][ /\ (last'.h \in AdvanceCalls /\ last'.r = "rejected")
              => /\ gameState' = [gameState EXCEPT !.isLoading = FALSE,
                                                   !.error = gameState'.error]
                 /\ gameState'.error # Null
                 /\ last'.thrown # NoError
        /\ (/\ last'.h \in AdvanceCalls
            /\ last'.recv # NoResponse
            /\ (Len(last'.recv.scenes) = 0 \/ ~validateSceneData(last'.recv.scenes[1])))
              => last'.r = "rejected"
        /\ (last'.h \in AdvanceCalls /\ last'.r \in {"started", "backoff", "retried"})
              => gameState' = [gameState EXCEPT !.isLoading = gameState'.isLoading,
                                                !.error = gameState'.error] ]_vars

\* C5 witness: proceedToNextScene was rejected after maxRetries transport
\* calls while a game with buffered scenes exists.
C5_Witness ==
    /\ last.h = "proceedToNextScene" /\ last.r = "rejected"
    /\ last.calls = maxRetries
    /\ gameState.gameId # Null /\ Len(gameState.scenes) > 0
    /\ gameState.error = Str("NETWORK_ERROR")

\* C6: the transport call proceedToNextScene makes carries the gameId,
\* sessionId and currentSceneId of the GameState and a body {emotion, time}:
\* emotion is the supplied vector, or the default vector (neutral = 100,
\* others 0) when the argument is omitted or null; time is
\* getElapsedSeconds() of the tracker at the call.
C6_ProceedRequest ==
    (last.h = "proceedToNextScene" /\ last.r = "started")
        => last.sent =
              [kind |-> "generateNextScene",
               gameId |-> gameState.gameId,
               sessionId |-> gameState.sessionId,
               sceneId |-> gameState.currentSceneId,
               selectionId |-> Null,
               emotion |-> IF last.args.emotion.k \in {"undefined", "null"}
                           THEN [f \in EmotionFields |-> IF f = "neutral" THEN 100 ELSE 0]
                           ELSE last.args.emotion.e,
               time |-> getElapsedSeconds(timeTracker, now)]

\* C6 witness: proceedToNextScene(null) made its call two seconds into the game.
C6_Witness ==
    /\ last.h = "proceedToNextScene" /\ last.r = "started"
    /\ last.args.emotion.k = "null"
    /\ last.sent.time = 2

\* C7: createNewGame whose response has a valid first session succeeds and
\* sets gameId = the response game id, sessionId = the first session's id,
\* currentSceneId = the id of its first scene, scenes = its scenes, index 0,
\* backgroundUrl = its background or null, isLoading false, error null;
\* later sessions are ignored.
C7_CreateSuccessState ==
    (/\ last.h = "createNewGame"
     /\ last.recv # NoResponse
     /\ Len(last.recv.sessions) >= 1
     /\ validateSessionData(last.recv.sessions[1]))
        => /\ last.r = "resolved"
           /\ gameState =
                 [gameId |-> last.recv.game_id,
                  sessionId |-> last.recv.sessions[1].session_id,
                  currentSceneId |-> last.recv.sessions[1].scenes[1].scene_id,
                  scenes |-> last.recv.sessions[1].scenes,
                  currentSceneIndex |-> 0,
                  backgroundUrl |->
                      IF last.recv.sessions[1].background_url.k \in {"undefined", "null"}
                      THEN Null
                      ELSE last.recv.sessions[1].background_url,
                  isLoading |-> FALSE,
                  error |-> Null]

\* C7 witness: createNewGame succeeded on a response with two sessions whose
\* first session has two scenes and no background.
C7_Witness ==
    /\ last.h = "createNewGame" /\ last.r = "resolved"
    /\ Len(last.recv.sessions) = 2
    /\ Len(gameState.scenes) = 2
    /\ gameState.backgroundUrl = Null

\* C8: when createNewGame fails (transport rejection, empty sessions list,
\* invalid first session) gameId, sessionId and currentSceneId keep their
\* values, isLoading is cleared and the failure is rethrown; a response with
\* sessions: [] throws MissingSession.
C8_CreateFailureKeepsIds ==
    [][ /\ (last'.h = "createNewGame" /\ last'.r = "rejected")
              => /\ gameState'.gameId = gameState.gameId
                 /\ gameState'.sessionId = gameState.sessionId
                 /\ gameState'.currentSceneId = gameState.currentSceneId
                 /\ gameState'.isLoading = FALSE
                 /\ last'.thrown # NoError
        /\ (/\ last'.h = "createNewGame"
            /\ last'.recv # NoResponse
            /\ Len(last'.recv.sessions) = 0)
              => /\ last'.r = "rejected"
                 /\ last'.thrown.cls = "GameStateError"
                 /\ last'.thrown.code = "MISSING_SESSION"
        /\ (/\ last'.h = "createNewGame"
            /\ last'.recv # NoResponse
            /\ Len(last'.recv.sessions) >= 1
            /\ ~validateSessionData(last'.recv.sessions[1]))
              => last'.r = "rejected" ]_vars

\* C8 witness: createNewGame threw MissingSession on sessions: [] and gameId
\* is still null.
C8_Witness ==
    /\ last.h = "createNewGame" /\ last.r = "rejected"
    /\ last.thrown.code = "MISSING_SESSION"
    /\ Len(last.recv.sessions) = 0
    /\ gameState.gameId = Null

\* C9: selectChoice(selectionId) on a selection-type current scene whose
\* selections lack the key String(selectionId) throws InvalidChoice carrying
\* the id and makes no transport call; when the key is present it makes one
\* transport call, which carries that selectionId.
C9_InvalidChoice ==
    (/\ last.h = "selectChoice" /\ last.r \in {"threw", "started"}
     /\ HasGame(gameState)
     /\ getCurrentScene(gameState) # NoScene
     /\ getCurrentScene(gameState).type.s \in SelectionTypes)
        => IF NumberToString(last.args.selectionId)
                 \notin getCurrentScene(gameState).selections.keys
           THEN /\ last.r = "threw"
                /\ last.thrown.code = "INVALID_CHOICE"
                /\ last.thrown.arg = Num(last.args.selectionId)
                /\ last.sent = NoCall
           ELSE /\ last.r = "started"
                /\ last.sent.kind = "generateSceneAfterSelection"
                /\ last.sent.selectionId = Num(last.args.selectionId)
                /\ last.calls = 1

\* C9 witness: selectChoice(99) threw InvalidChoice on a scene offering "1" and "2".
C9_Witness ==
    /\ last.h = "selectChoice" /\ last.r = "threw"
    /\ last.thrown.code = "INVALID_CHOICE"
    /\ last.thrown.arg = Num(99)
    /\ getCurrentScene(gameState).selections.keys = {"1", "2"}

\* C10: proceedToNextScene on a selection-type current scene and selectChoice
\* on a dialogue-type current scene throw InvalidSceneType carrying the
\* actual type, make no transport call and leave the GameState unchanged.
C10_InvalidSceneType ==
    [][ /\ (/\ last'.h = "proceedToNextScene" /\ last'.r \in {"threw", "started"}
            /\ HasGame(gameState)
            /\ getCurrentScene(gameState) # NoScene
            /\ getCurrentScene(gameState).type.s \in SelectionTypes)
              => /\ last'.r = "threw"
                 /\ last'.thrown.code = "INVALID_SCENE_TYPE"
                 /\ last'.thrown.arg = getCurrentScene(gameState).type
                 /\ last'.sent = NoCall
                 /\ gameState' = gameState
                 /\ ops' = ops
        /\ (/\ last'.h = "selectChoice" /\ last'.r \in {"threw", "started"}
            /\ HasGame(gameState)
            /\ getCurrentScene(gameState) # NoScene
            /\ getCurrentScene(gameState).type.s = "dialogue")
              => /\ last'.r = "threw"
                 /\ last'.thrown.code = "INVALID_SCENE_TYPE"
                 /\ last'.thrown.arg = getCurrentScene(gameState).type
                 /\ last'.sent = NoCall
                 /\ gameState' = gameState
                 /\ ops' = ops ]_vars

\* C10 witness: proceedToNextScene threw InvalidSceneType("selections").
C10_Witness ==
    /\ last.h = "proceedToNextScene" /\ last.r = "threw"
    /\ last.thrown.code = "INVALID_SCENE_TYPE"
    /\ last.thrown.arg = Str("selections")
    /\ gameState.gameId # Null

\* C11: resetGame(), in any state, sets the GameState to its initial shape
\* (gameId, sessionId, currentSceneId null; no scenes; index 0; background
\* null; isLoading false; error null) and resets the tracker to Unstarted
\* (all fields cleared); while it is Unstarted getElapsedSeconds() returns 0.
C11_ResetGame ==
    [][ /\ last'.h = "resetGame"
              => /\ gameState' =
                       [gameId |-> Null, sessionId |-> Null, currentSceneId |-> Null,
                        scenes |-> <<>>, currentSceneIndex |-> 0, backgroundUrl |-> Null,
                        isLoading |-> FALSE, error |-> Null]
                 /\ timeTracker' =
                       [startTime |-> NoTime, pausedTime |-> 0, lastPauseStart |-> NoTime]
                 /\ accumulator'.state = "Unstarted"
        /\ accumulator'.state = "Unstarted"
              => getElapsedSeconds(timeTracker', now') = 0 ]_vars

\* C11 witness: resetGame ran while an advance that sent time >= 1 was in
\* flight, and a second later the tracker still reads 0.
C11_Witness ==
    /\ Len(ops) = 1 /\ ops[1].h \in AdvanceCalls /\ ops[1].req.time >= 1
    /\ gameState = initialGameState
    /\ accumulator.state = "Unstarted"
    /\ last.h = "tick"
    /\ getElapsedSeconds(timeTracker, now) = 0

\* C12: for every sequence of start(), pause(), resume() calls and clock
\* advances, getElapsedSeconds() returns floor(A / 1000), A being the
\* milliseconds since the latest start() during which the tracker was not
\* paused; paused time never counts, also when the query is made in the
\* middle of a pause, and the result is 0 while Unstarted.
C12_ElapsedIsActiveTime ==
    /\ getElapsedSeconds(timeTracker, now) = accumulator.activeMs \div 1000
    /\ last.h = "getElapsedSeconds" => timeCall.value = accumulator.activeMs \div 1000
    /\ accumulator.state = "Unstarted" => getElapsedSeconds(timeTracker, now) = 0

\* C12 witness: after one completed pause and 1500 ms of active time the
\* tracker is queried in the middle of a second pause and returns 1.
C12_Witness ==
    /\ last.h = "getElapsedSeconds"
    /\ accumulator.state = "Paused" /\ accumulator.activeMs = 1500
    /\ timeTracker.pausedTime > 0
    /\ timeTracker.lastPauseStart # NoTime /\ timeTracker.lastPauseStart < now
    /\ timeCall.value = 1

\* C13: start() from any state (Unstarted, Running or Paused) leaves the
\* tracker Running with pausedTime 0, no lastPauseStart and startTime = now;
\* the elapsed time read right after it is 0, whatever had elapsed before.
C13_StartIsHardReset ==
    [][ last'.h = "start"
          => /\ timeTracker' =
                   [startTime |-> now, pausedTime |-> 0, lastPauseStart |-> NoTime]
             /\ accumulator'.state = "Running"
             /\ accumulator'.activeMs = 0
             /\ getElapsedSeconds(timeTracker', now') = 0 ]_vars

\* C13 witness: start() was called on a paused tracker that had a completed
\* pause behind it and an elapsed time of at least one second.
C13_Witness ==
    /\ last.h = "start"
    /\ timeCall.before.lastPauseStart # NoTime
    /\ timeCall.before.pausedTime > 0
    /\ getElapsedSeconds(timeCall.before, now) >= 1
    /\ getElapsedSeconds(timeTracker, now) = 0

\* C14: pause() on an Unstarted or already Paused tracker and resume() on a
\* tracker that is not Paused change no field: the first pause instant is
\* kept and pausedTime is not altered.
C14_IgnoredPauseResume ==
    [][ (\/ last'.h = "pause" /\ accumulator.state \in {"Unstarted", "Paused"}
         \/ last'.h = "resume" /\ accumulator.state # "Paused")
          => timeTracker' = timeTracker ]_vars

\* C14 witness: pause() was called a second time, later than the first
\* one, and the first pause instant is still the recorded one.
C14_Witness ==
    /\ last.h = "pause"
    /\ timeCall.before.lastPauseStart # NoTime
    /\ timeCall.before.lastPauseStart < now
    /\ timeTracker.lastPauseStart = timeCall.before.lastPauseStart

\* C15: getElapsedSeconds() is a pure read: in any state, Paused included,
\* it leaves startTime, pausedTime and lastPauseStart unchanged, and two
\* calls in a row at the same clock instant return the same value.
C15_ElapsedIsPureRead ==
    [][ last'.h = "getElapsedSeconds"
          => /\ timeTracker' = timeTracker
             /\ timeCall'.before = timeTracker
             /\ last.h = "getElapsedSeconds" => timeCall'.value = timeCall.value ]_vars

\* C15 witness: getElapsedSeconds() returned 1 on a paused tracker some
\* time into the pause.
C15_Witness ==
    /\ last.h = "getElapsedSeconds"
    /\ timeTracker.lastPauseStart # NoTime /\ timeTracker.lastPauseStart < now
    /\ timeTracker.pausedTime = 0
    /\ timeCall.value = 1

\* the page handlers that advance
PageAdvanceHandlers == {"handleNextScene", "handleChoiceSelect"}

\* C16: an advance, local or over the network, never starts, pauses,
\* resumes or resets the tracker; the time an advance sends is the whole
\* seconds of active time accumulated since createNewGame succeeded, and
\* the elapsed time only decreases when a game is created or reset.
C16_TimeAccumulatesAcrossAdvances ==
    [][ /\ last'.h \in AdvanceCalls \cup PageAdvanceHandlers
              => timeTracker' = timeTracker /\ accumulator' = accumulator
        /\ (last'.h \in AdvanceCalls /\ last'.r = "started")
              => last'.sent.time = accumulator.activeMs \div MsPerSecond
        /\ (~(last'.h = "createNewGame" /\ last'.r = "resolved") /\ last'.h # "resetGame")
              => getElapsedSeconds(timeTracker', now') >= getElapsedSeconds(timeTracker, now)
      ]_vars

\* C16 witness: a second advance of the same game (the first one moved it
\* to session 2) sends time 3, three seconds after the game was created.
C16_Witness ==
    /\ last.h \in AdvanceCalls /\ last.r = "started"
    /\ gameState.sessionId = Num(2)
    /\ timeTracker.startTime = 0
    /\ accumulator.activeMs = 3 * MsPerSecond
    /\ last.sent.time = 3

RetriedCodes == {"NETWORK_ERROR", "SERVER_ERROR"}

\* every failure in `errors` is a network or server error
AllRetried(errors) ==
    \A k \in 1..Len(errors) : classifyApiError(errors[k]) \in RetriedCodes

RECURSIVE SumSeq(_)
SumSeq(seq) == IF seq = <<>> THEN 0 ELSE Head(seq) + SumSeq(Tail(seq))

\* C18: after a failure classified AUTH_ERROR, VALIDATION_ERROR or
\* UNKNOWN_ERROR retryWithBackoff never invokes the operation again: that
\* failure is the last one, it is the exception rethrown, no delay follows
\* it, and when it is the first failure the operation was invoked once.
C18_OtherFailuresNotRetried ==
    \A k \in 1..Len(retry.errors) :
        classifyApiError(retry.errors[k])
              \in {"AUTH_ERROR", "VALIDATION_ERROR", "UNKNOWN_ERROR"}
          => /\ k = Len(retry.errors)
             /\ retry.phase = "thrown"
             /\ retry.thrown = retry.errors[k]
             /\ retry.invocations = k
             /\ Len(retry.delays) = k - 1

\* C18 witness: retryWithBackoff(fn, 3, 1000) rethrew the 401 of the first
\* attempt after one invocation and no delay.
C18_Witness ==
    /\ retry.phase = "thrown"
    /\ retry.maxRetries = 3
    /\ retry.errors = <<ApiError(Num(401))>>
    /\ retry.thrown = ApiError(Num(401))
    /\ retry.invocations = 1
    /\ retry.delays = <<>>

\* C19: when attempts 1..k-1 fail with network or server errors and
\* attempt k succeeds (k <= maxRetries), retryWithBackoff returns the value
\* of attempt k after exactly k invocations; when every attempt fails with
\* a network or server error it rethrows the last failure after exactly
\* maxRetries invocations.
C19_RetryOutcome ==
    /\ retry.phase = "returned"
          => /\ AllRetried(retry.errors)
             /\ retry.invocations = Len(retry.errors) + 1
             /\ retry.invocations <= retry.maxRetries
             /\ retry.value \in OperationValues
             /\ retry.thrown = NoError
    /\ (retry.phase = "thrown" /\ Len(retry.errors) >= 1 /\ AllRetried(retry.errors))
          => /\ retry.invocations = retry.maxRetries
             /\ Len(retry.errors) = retry.maxRetries
             /\ retry.thrown = retry.errors[Len(retry.errors)]
    /\ (retry.phase \in {"calling", "waiting"})
          => AllRetried(retry.errors) /\ Len(retry.errors) < retry.maxRetries

\* C19 witness: a network failure followed by success returned the value
\* after two invocations.
C19_Witness ==
    /\ retry.phase = "returned"
    /\ retry.maxRetries = 3
    /\ retry.errors = <<ApiError(Undefined)>>
    /\ retry.invocations = 2
    /\ retry.value = 2

\* C20: the delay awaited after failed attempt i (0-based) is
\* initialDelay * 2^i; no delay precedes the first attempt, none follows a
\* success and none follows the final failing attempt, so exhausting n
\* attempts has awaited initialDelay * (2^(n-1) - 1) in all; an attempt
\* is never made before its delay has elapsed.
C20_BackoffDelays ==
    /\ \A i \in 1..Len(retry.delays) :
          retry.delays[i] = retry.initialDelay * (2 ^ (i - 1))
    /\ retry.phase \in {"calling", "returned"}
          => Len(retry.delays) = retry.invocations - 1
    /\ retry.phase = "waiting"
          => Len(retry.delays) = retry.invocations /\ retry.invocations < retry.maxRetries
    /\ (retry.phase = "thrown" /\ retry.invocations >= 1)
          => Len(retry.delays) = retry.invocations - 1
    /\ (retry.phase = "thrown" /\ retry.invocations >= 1
            /\ retry.invocations = retry.maxRetries)
          => SumSeq(retry.delays)
                = retry.initialDelay * (2 ^ (retry.maxRetries - 1) - 1)
    /\ (retry.phase = "calling" /\ retry.attempt > 0) => now >= SumSeq(retry.delays)

\* C20 witness: retryWithBackoff(fn, 3, 1000) gave up after three
\* server errors, having awaited 1000 and 2000 milliseconds.
C20_Witness ==
    /\ retry.phase = "thrown"
    /\ retry.maxRetries = 3 /\ retry.initialDelay = 1000
    /\ retry.invocations = 3
    /\ retry.thrown = ApiError(Num(500))
    /\ retry.delays = <<1000, 2000>>
    /\ now >= 3000

\* ------------------------------------------- the error classifier on its own
\* classifyApiError, handleApiError and isRecoverableError called directly on
\* one failure value: an ApiError as apiRequest builds it (with the status of
\* the response, or without status when fetch itself failed), a TypeError or
\* a plain Error with or without "fetch" in its message, or a GameStateError.
StatusCodes == {0, 200, 204, 302, 400, 401, 403, 404, 409, 422, 429, 499, 500, 502, 503, 599}

Failures ==
    { Exception("ApiError", st, "", Undefined, f) :
        st \in {Undefined} \cup {Num(n) : n \in StatusCodes}, f \in BOOLEAN }
    \cup { Exception(c, Undefined, "", Undefined, f) : c \in {"TypeError", "Error"}, f \in BOOLEAN }
    \cup { createMissingSessionError, createInvalidSceneError,
           createInvalidSceneTypeError(Str("unknown")), createInvalidChoiceError(99) }

\* fn(error) returned code (classifyApiError), message (handleApiError) or
\* flag (isRecoverableError)
ClassifierCall(fn, error, code, message, flag) ==
    [fn |-> fn, error |-> error, code |-> code, message |-> message, flag |-> flag]

\* every variable but fnCall: constant while a pure function is called
restVars ==
    <<gameState, timeTracker, accumulator, now, accessToken, ops, driver, page, last,
      timeCall, retry>>

AtRest ==
    /\ gameState = initialGameState
    /\ timeTracker = TrackerInitial
    /\ accumulator = AccumulatorInitial
    /\ timeCall = NoTimeCall
    /\ retry = NoRetry
    /\ now = 0
    /\ accessToken = Null
    /\ ops = <<>>
    /\ driver = "api"
    /\ page = initialPage
    /\ last = Step("new", "done", "call", NoArgs, NoError, NoCall, NoResponse, 0)

ClassifyInit ==
    /\ AtRest
    /\ \E error \in Failures : fnCall = ClassifierCall("none", error, "", Undefined, FALSE)

CallClassifyApiError ==
    /\ fnCall.fn = "none"
    /\ fnCall' = [fnCall EXCEPT !.fn = "classifyApiError",
                                !.code = classifyApiError(fnCall.error)]
    /\ UNCHANGED restVars

CallHandleApiError ==
    /\ fnCall.fn = "none"
    /\ fnCall' = [fnCall EXCEPT !.fn = "handleApiError",
                                !.code = classifyApiError(fnCall.error),
                                !.message = handleApiError(fnCall.error)]
    /\ UNCHANGED restVars

CallIsRecoverableError ==
    /\ fnCall.fn = "none"
    /\ fnCall' = [fnCall EXCEPT !.fn = "isRecoverableError",
                                !.flag = isRecoverableError(fnCall.error)]
    /\ UNCHANGED restVars

ClassifyNext == CallClassifyApiError \/ CallHandleApiError \/ CallIsRecoverableError

ClassifySpec == ClassifyInit /\ [][ClassifyNext]_vars

\* ------------------------------------------------ the validators on their own
\* validateSceneData, validateSessionData and validateEmotionData called
\* directly on one value of unknown shape.
OtherKinds == {"null", "undefined", "string", "number", "array"}

SceneInputs ==
    { Scene(id, type, dialogue, selections, character) :
        id \in {Num(1), Dec(15), Str("1"), Undefined},
        type \in {Str("dialogue"), Str("selection"), Str("selections"), Str("unknown"),
                  Undefined},
        dialogue \in {Undefined, Null, Str("hi"), Num(5)},
        selections \in {Undefined, Null, Obj({}), Obj({"1"}), Arr(0), Str("1")},
        character \in {Undefined, Null, Str("char1.png"), Num(1)} }
    \cup { NotAScene(kind) : kind \in OtherKinds }

\* a scene whose id is 1.5: passes validateSceneData
D15 == Scene(Dec(15), Str("dialogue"), Null, Undefined, Null)

SessionInputs ==
    { Session(id, scenes, Undefined) :
        id \in {Num(1), Dec(15), NaN, Str("one"), Undefined},
        scenes \in SceneLists \cup {<<D1, NotAScene("null")>>, <<D15>>} }
    \cup { SessionWithoutArray(Num(1), kind) : kind \in {"undefined", "null", "object", "string"} }
    \cup { NotASession(kind) : kind \in OtherKinds }

EmotionValues ==
    { Undefined, Null, Str("50"), NaN, Num(-1), Num(0), Num(50), Num(100), Num(101),
      Dec(-5), Dec(505), Dec(1005) }

\* an object whose angry, neutral and extra properties are a, n and x and
\* whose other canonical fields are 0
EmotionInput(a, n, x) ==
    JsObject("object",
             [key \in PropertyNames |->
                 CASE key = "angry" -> a
                   [] key = "neutral" -> n
                   [] key = "extra" -> x
                   [] key \in EmotionFields -> Num(0)
                   [] OTHER -> Undefined])

EmotionInputs ==
    { EmotionInput(a, n, x) : a \in EmotionValues, n \in EmotionValues, x \in {Undefined, Num(1)} }
    \cup { JsObject(kind, NoProps) : kind \in OtherKinds \cup {"object"} }

\* validate...Data(arg) returned result; target tells which of scene,
\* session and emotion is the argument
ValidatorCall(fn, target, scene, session, emotion, result) ==
    [fn |-> fn, target |-> target, scene |-> scene, session |-> session,
     emotion |-> emotion, result |-> result]

ValidatorInit ==
    /\ AtRest
    /\ \/ \E x \in SceneInputs :
             fnCall = ValidatorCall("none", "scene", x, NotASession("undefined"),
                                    JsObject("undefined", NoProps), FALSE)
       \/ \E x \in SessionInputs :
             fnCall = ValidatorCall("none", "session", NoScene, x,
                                    JsObject("undefined", NoProps), FALSE)
       \/ \E x \in EmotionInputs :
             fnCall = ValidatorCall("none", "emotion", NoScene, NotASession("undefined"),
                                    x, FALSE)

CallValidateSceneData ==
    /\ fnCall.fn = "none" /\ fnCall.target = "scene"
    /\ fnCall' = [fnCall EXCEPT !.fn = "validateSceneData",
                                !.result = validateSceneData(fnCall.scene)]
    /\ UNCHANGED restVars

CallValidateSessionData ==
    /\ fnCall.fn = "none" /\ fnCall.target = "session"
    /\ fnCall' = [fnCall EXCEPT !.fn = "validateSessionData",
                                !.result = validateSessionData(fnCall.session)]
    /\ UNCHANGED restVars

CallValidateEmotionData ==
    /\ fnCall.fn = "none" /\ fnCall.target = "emotion"
    /\ fnCall' = [fnCall EXCEPT !.fn = "validateEmotionData",
                                !.result = validateEmotionData(fnCall.emotion)]
    /\ UNCHANGED restVars

ValidatorNext == CallValidateSceneData \/ CallValidateSessionData \/ CallValidateEmotionData

ValidatorSpec == ValidatorInit /\ [][ValidatorNext]_vars

\* ------------------------------------------- normalizeEmotionData on its own
\* normalizeEmotionData called directly on one raw value: null, undefined, a
\* primitive, an array, or an object whose angry and neutral aliases hold any
\* of the values below.
AliasValues == { Undefined, Str("10"), NaN, Num(10), Num(150), Dec(-5), Dec(505) }

RawInput(angry, anger, Angry, Anger, neutral, Neutral) ==
    JsObject("object",
             [key \in PropertyNames |->
                 CASE key = "angry" -> angry
                   [] key = "anger" -> anger
                   [] key = "Angry" -> Angry
                   [] key = "Anger" -> Anger
                   [] key = "neutral" -> neutral
                   [] key = "Neutral" -> Neutral
                   [] OTHER -> Undefined])

RawInputs ==
    { RawInput(a1, a2, a3, a4, n1, n2) :
        a1 \in AliasValues, a2 \in AliasValues, a3 \in AliasValues, a4 \in AliasValues,
        n1 \in {Undefined, Num(100)}, n2 \in {Undefined, Num(40)} }
    \cup { JsObject(kind, NoProps) : kind \in OtherKinds }

\* the numbers clampEmotionValue is called with: integers, numbers with one
\* decimal, and NaN
ClampInputs ==
    { Num(n) : n \in (0 - MaxOver)..(100 + MaxOver) }
    \cup { Dec(t) : t \in { x \in (0 - 10 * MaxOver)..(1000 + 10 * MaxOver) : x % 10 # 0 } }
    \cup { NaN }

\* normalizeEmotionData(raw) returned result, or clampEmotionValue(value)
\* returned clamped; target tells which of raw and value is the argument
NormalizeCall(fn, target, raw, value, result, clamped) ==
    [fn |-> fn, target |-> target, raw |-> raw, value |-> value, result |-> result,
     clamped |-> clamped]

NormalizeInit ==
    /\ AtRest
    /\ \/ \E raw \in RawInputs :
             fnCall = NormalizeCall("none", "raw", raw, Undefined,
                                    [f \in EmotionFields |-> Undefined], Undefined)
       \/ \E value \in ClampInputs :
             fnCall = NormalizeCall("none", "value", JsObject("undefined", NoProps), value,
                                    [f \in EmotionFields |-> Undefined], Undefined)

CallNormalizeEmotionData ==
    /\ fnCall.fn = "none" /\ fnCall.target = "raw"
    /\ fnCall' = [fnCall EXCEPT !.fn = "normalizeEmotionData",
                                !.result = normalizeEmotionData(fnCall.raw)]
    /\ UNCHANGED restVars

CallClampEmotionValue ==
    /\ fnCall.fn = "none" /\ fnCall.target = "value"
    /\ fnCall' = [fnCall EXCEPT !.fn = "clampEmotionValue",
                                !.clamped = clampEmotionValue(fnCall.value)]
    /\ UNCHANGED restVars

NormalizeNext == CallNormalizeEmotionData \/ CallClampEmotionValue

NormalizeSpec == NormalizeInit /\ [][NormalizeNext]_vars

\* the response fails the structural checks made by the function that received it
InvalidResponse(h, response) ==
    IF h = "createNewGame"
    THEN Len(response.sessions) = 0 \/ ~validateSessionData(response.sessions[1])
    ELSE Len(response.scenes) = 0 \/ ~validateSceneData(response.scenes[1])

\* C21: a response that fails structural validation (no session, invalid
\* session, empty scene array, invalid first scene) never makes the
\* transport be called again: the call rejects in the step that received
\* the response, with a GameStateError, and the GameState is untouched but
\* for isLoading and error.
C21_InvalidResponseNotRetried ==
    [][ (last'.recv # NoResponse /\ InvalidResponse(last'.h, last'.recv))
          => /\ last'.r = "rejected"
             /\ last'.thrown.cls = "GameStateError"
             /\ last'.thrown.code \in {"MISSING_SESSION", "INVALID_SCENE"}
             /\ last'.sent = NoCall
             /\ Len(ops') = Len(ops) - 1
             /\ \A i \in 1..Len(ops') : ops'[i] \in {ops[j] : j \in 1..Len(ops)}
             /\ gameState' = [gameState EXCEPT !.isLoading = FALSE,
                                               !.error = gameState'.error]
             /\ timeTracker' = timeTracker ]_vars

\* C21 witness: an advance of a loaded game received a response whose
\* first scene is invalid, on its first transport call, and was rejected
\* with InvalidScene.
C21_Witness ==
    /\ last.h = "proceedToNextScene" /\ last.r = "rejected"
    /\ last.recv # NoResponse
    /\ last.recv.scenes = <<X4>>
    /\ last.thrown.code = "INVALID_SCENE"
    /\ last.calls = 1
    /\ ops = <<>>
    /\ Len(gameState.scenes) = 2

\* the kind the taxonomy gives a failure by its status code alone
KindByStatus(status) ==
    IF status.k = "undefined" THEN "NETWORK_ERROR"
    ELSE IF status.n \in {401, 403} THEN "AUTH_ERROR"
    ELSE IF status.n \in {400, 422} THEN "VALIDATION_ERROR"
    ELSE IF status.n >= 500 THEN "SERVER_ERROR"
    ELSE "UNKNOWN_ERROR"

\* C22: classification of a failure that may carry a status code is total
\* and gives exactly one kind by the priority: no status -> NETWORK_ERROR,
\* 401/403 -> AUTH_ERROR, 400/422 -> VALIDATION_ERROR, >= 500 ->
\* SERVER_ERROR, anything else -> UNKNOWN_ERROR.
C22_ClassificationByStatus ==
    (fnCall.fn = "classifyApiError" /\ fnCall.error.cls = "ApiError")
        => /\ fnCall.code \in GameErrorCode
           /\ fnCall.code = KindByStatus(fnCall.error.status)

\* C23 as stated: a TypeError without status whose message contains "fetch"
\* is classified UNKNOWN_ERROR.
C23_FetchFailureIsUnknown ==
    (/\ fnCall.fn = "classifyApiError"
     /\ fnCall.error.cls = "TypeError"
     /\ fnCall.error.status = Undefined
     /\ fnCall.error.fetch)
        => fnCall.code = "UNKNOWN_ERROR"

\* C23 amended: a failure without status is classified NETWORK_ERROR when
\* it is an ApiError or a TypeError whose message contains "fetch", and
\* UNKNOWN_ERROR otherwise (a TypeError with another message, or any other
\* class of error whatever its message).
C23_NoStatusClassification ==
    (/\ fnCall.fn = "classifyApiError"
     /\ fnCall.error.cls \in {"ApiError", "TypeError", "Error"}
     /\ fnCall.error.status = Undefined)
        => fnCall.code =
              IF \/ fnCall.error.cls = "ApiError"
                 \/ fnCall.error.cls = "TypeError" /\ fnCall.error.fetch
              THEN "NETWORK_ERROR" ELSE "UNKNOWN_ERROR"

\* C23 witness: a plain Error whose message contains "fetch" was classified
\* UNKNOWN_ERROR.
C23_Witness ==
    /\ fnCall.fn = "classifyApiError"
    /\ fnCall.error.cls = "Error"
    /\ fnCall.error.fetch
    /\ fnCall.code = "UNKNOWN_ERROR"

\* C24: a TypeError whose message contains "fetch" is classified
\* NETWORK_ERROR and handleApiError reduces it to the network-error message.
C24_FetchTypeErrorIsNetwork ==
    (/\ fnCall.fn \in {"classifyApiError", "handleApiError"}
     /\ fnCall.error.cls = "TypeError"
     /\ fnCall.error.fetch)
        => /\ fnCall.code = "NETWORK_ERROR"
           /\ fnCall.fn = "handleApiError"
                 => fnCall.message = getErrorMessage("NETWORK_ERROR")

\* C24 witness: handleApiError returned the network-error message for a
\* TypeError whose message contains "fetch".
C24_Witness ==
    /\ fnCall.fn = "handleApiError"
    /\ fnCall.error.cls = "TypeError"
    /\ fnCall.error.fetch
    /\ fnCall.message = Str("NETWORK_ERROR")

\* the taxonomy kind of a failure: the code a GameStateError carries, the
\* classification of anything else
FailureKind(error) ==
    IF error.cls = "GameStateError" THEN error.code ELSE classifyApiError(error)

\* C25: whenever createNewGame, proceedToNextScene or selectChoice rejects,
\* gameState.error holds the fixed message of the taxonomy kind of the
\* failure and isLoading is false in that state.
C25_ErrorFieldHoldsKindMessage ==
    (last.r = "rejected" /\ last.h \in {"createNewGame", "proceedToNextScene", "selectChoice"})
        => /\ gameState.error = getErrorMessage(FailureKind(last.thrown))
           /\ gameState.isLoading = FALSE

\* C26: validateSceneData(x) is true if and only if x is an object,
\* scene_id is an integer, type is dialogue or a selection variant, the
\* dialogue of a dialogue scene is absent, null or a string, a selection
\* scene has a selections field that is a plain key-value mapping, and
\* character_filename is absent, null or a string.
C26_ValidSceneIff ==
    fnCall.fn = "validateSceneData"
        => (fnCall.result <=>
              /\ IsObjectValue(fnCall.scene)
              /\ IsInteger(fnCall.scene.scene_id)
              /\ fnCall.scene.type \in {Str("dialogue"), Str("selection"), Str("selections")}
              /\ fnCall.scene.type = Str("dialogue")
                    => fnCall.scene.dialogue.k \in {"undefined", "null", "string"}
              /\ fnCall.scene.type \in {Str("selection"), Str("selections")}
                    => fnCall.scene.selections.k = "object"
              /\ fnCall.scene.character_filename.k \in {"undefined", "null", "string"})

\* C27: validateSessionData(x) is true if and only if x is an object,
\* session_id is an integer, scenes is an array of length >= 1 and every
\* element of scenes passes validateSceneData.
C27_ValidSessionIff ==
    fnCall.fn = "validateSessionData"
        => (fnCall.result <=>
              /\ IsObjectValue(fnCall.session)
              /\ IsInteger(fnCall.session.session_id)
              /\ fnCall.session.scenesKind = "array"
              /\ Len(fnCall.session.scenes) >= 1
              /\ \A i \in 1..Len(fnCall.session.scenes) :
                    validateSceneData(fnCall.session.scenes[i]))

\* C28: validateEmotionData(x) is true if and only if x is an object with
\* exactly the seven canonical fields, each an integer in [0,100]; a
\* non-integer component, an extra field or a missing field fails.
C28_ValidEmotionIff ==
    fnCall.fn = "validateEmotionData"
        => (fnCall.result <=>
              /\ IsObjectValue(fnCall.emotion)
              /\ {key \in PropertyNames : fnCall.emotion.props[key] # Undefined}
                    = EmotionFields
              /\ \A field \in EmotionFields :
                    /\ IsInteger(fnCall.emotion.props[field])
                    /\ fnCall.emotion.props[field].n \in 0..100)

\* C29: for every raw input normalizeEmotionData returns an object with
\* exactly the seven canonical keys, each an integer in [0,100], and for
\* null it returns the default vector (neutral 100, all others 0).
C29_NormalizedVector ==
    fnCall.fn = "normalizeEmotionData"
        => /\ DOMAIN fnCall.result = EmotionFields
           /\ \A f \in EmotionFields :
                 IsInteger(fnCall.result[f]) /\ fnCall.result[f].n \in 0..100
           /\ fnCall.raw.k = "null"
                 => fnCall.result = [f \in EmotionFields |->
                                        IF f = "neutral" THEN Num(100) ELSE Num(0)]

\* the value of the i-th alias of field f in raw is a number
NumericAlias(raw, f, i) == raw.props[Aliases[f][i]].k = "number"

\* C30: for each canonical field of an object, normalizeEmotionData takes
\* the (clamped) value of the first alias in the field's list (the
\* lower-case name first) whose value is a number, whatever later aliases
\* hold; aliases with a non-numeric value are skipped, and a field with no
\* numeric alias is 0.
C30_FirstNumericAliasWins ==
    (fnCall.fn = "normalizeEmotionData" /\ IsObjectValue(fnCall.raw))
        => \A f \in EmotionFields :
              /\ Aliases[f][1] = f
              /\ IF \E i \in 1..Len(Aliases[f]) : NumericAlias(fnCall.raw, f, i)
                 THEN \E i \in 1..Len(Aliases[f]) :
                        /\ NumericAlias(fnCall.raw, f, i)
                        /\ \A j \in 1..(i - 1) : ~NumericAlias(fnCall.raw, f, j)
                        /\ fnCall.result[f] =
                              clampEmotionValue(fnCall.raw.props[Aliases[f][i]])
                 ELSE fnCall.result[f] = Num(0)

\* C30 witness: angry holds a string, anger 50.5 and Angry 150; the result
\* has angry = 51, and neutral = 40 taken from Neutral alone.
C30_Witness ==
    /\ fnCall.fn = "normalizeEmotionData"
    /\ fnCall.raw.props["angry"] = Str("10")
    /\ fnCall.raw.props["anger"] = Dec(505)
    /\ fnCall.raw.props["Angry"] = Num(150)
    /\ fnCall.raw.props["neutral"] = Undefined
    /\ fnCall.result["angry"] = Num(51)
    /\ fnCall.result["neutral"] = Num(40)
    /\ fnCall.result["happy"] = Num(0)

\* C31: clampEmotionValue(v) equals round(min(100, max(0, v))) with halves
\* rounded up, and for every number v it is an integer in [0,100].
C31_ClampIsRoundedClamp ==
    fnCall.fn = "clampEmotionValue"
        => /\ IsInteger(fnCall.clamped)
           /\ fnCall.clamped.n \in 0..100
           /\ LET bounded == IF Tenths(fnCall.value) < 0 THEN 0
                             ELSE IF Tenths(fnCall.value) > 1000 THEN 1000
                             ELSE Tenths(fnCall.value)
              IN  fnCall.clamped.n = (bounded + 5) \div 10

\* the step just taken was the page's next-scene action (click, menu
\* 'skip', auto-play timer)
PageNextSceneStep ==
    \/ last'.h = "handleNextScene"
    \/ last'.h = "proceedToNextScene" /\ last'.via = "page" /\ last'.r \in {"started", "threw"}

\* C32: with a buffer of n >= 2 dialogue scenes, the page's next-scene
\* action consumes the buffered scenes one at a time and, once the page
\* shows the last buffered scene, issues a network advance: it is never a
\* local move over an exhausted buffer.
C32_PageReachesNetworkAdvance ==
    [][ (/\ PageNextSceneStep
         /\ page.mode = "playing" /\ ~gameState.isLoading
         /\ Len(gameState.scenes) >= 2
         /\ \A i \in 1..Len(gameState.scenes) : gameState.scenes[i].type = Str("dialogue")
         /\ page.currentSceneIndex >= Len(gameState.scenes) - 1)
          => /\ last'.h = "proceedToNextScene"
             /\ last'.r = "started"
             /\ last'.sent.sceneId = PageScene.scene_id ]_vars

\* C33: whenever the buffer is non-empty, currentSceneId is the id of the
\* scene at the current position of the buffer, which is the scene the
\* player is viewing.
C33_SceneIdIsViewedScene ==
    Len(gameState.scenes) > 0
        => /\ gameState.currentSceneId = getCurrentScene(gameState).scene_id
           /\ (page.mode = "playing" /\ driver = "page")
                 => gameState.currentSceneId = PageScene.scene_id

\* C34: every scene held in gameState.scenes passes validateSceneData.
C34_BufferedScenesValid ==
    \A i \in 1..Len(gameState.scenes) : validateSceneData(gameState.scenes[i])

\* C35: gameId = null implies sessionId = null, currentSceneId = null and
\* an empty buffer, in every state, also after resetGame() was called with
\* an operation in flight and that operation has settled.
C35_ResetEngineStaysEmpty ==
    gameState.gameId = Null
        => /\ gameState.sessionId = Null
           /\ gameState.currentSceneId = Null
           /\ gameState.scenes = <<>>

\* C38: within one proceedToNextScene / selectChoice call every attempt
\* sends the request computed before the first attempt: same identifiers,
\* emotion and time; the time is not read again from the tracker, so a
\* retry reports the elapsed seconds as of the original call.
C38_RetriesResendSameRequest ==
    [][ /\ (last'.h \in AdvanceCalls /\ last'.r = "started")
              => ops'[Len(ops')].req = last'.sent
        /\ (last'.h \in AdvanceCalls /\ last'.r = "retried")
              => \E i \in 1..Len(ops) :
                    /\ ops[i].phase = "delay" /\ ops'[i].phase = "pending"
                    /\ last'.sent = ops[i].req
        /\ Len(ops') = Len(ops)
              => \A i \in 1..Len(ops) : ops'[i].req = ops[i].req ]_vars

\* C38 witness: an advance was retried after its backoff delay and sent a
\* time smaller than the tracker's elapsed seconds at the retry.
C38_Witness ==
    /\ last.h \in AdvanceCalls /\ last.r = "retried"
    /\ last.calls = 2
    /\ last.sent.time < getElapsedSeconds(timeTracker, now)

\* C39: for every maxRetries, 0 included, retryWithBackoff makes at most
\* maxRetries invocations of the operation, and it settles either with a
\* value the operation returned or with a failure the operation raised.
C39_RetrySettlesWithOperationOutcome ==
    /\ retry.invocations <= retry.maxRetries
    /\ retry.phase = "returned" => retry.value \in OperationValues
    /\ retry.phase = "thrown"
          => \E i \in 1..Len(retry.errors) : retry.errors[i] = retry.thrown

\* C40: a failure that carries a numeric status code, 0 included, is never
\* classified NETWORK_ERROR, and is recoverable (retried) only if its
\* status is >= 500.
C40_StatusNeverNetwork ==
    (fnCall.fn # "none" /\ fnCall.error.status.k = "number")
        => /\ fnCall.fn \in {"classifyApiError", "handleApiError"}
                 => fnCall.code # "NETWORK_ERROR"
           /\ fnCall.fn = "isRecoverableError"
                 => (fnCall.flag <=> fnCall.error.status.n >= 500)

\* C36: driven by the game page (click, menu 'skip', choice selection,
\* auto-play timer), at most one network advance is in flight: no advance
\* is started while isLoading is true or while another advance is pending.
C36_OneAdvanceInFlight ==
    [][ (last'.via = "page" /\ last'.h \in AdvanceCalls /\ last'.r = "started")
          => /\ ~gameState.isLoading
             /\ \A i \in 1..Len(ops) : ops[i].h \notin AdvanceCalls ]_vars

\* C37: under every interleaving of createNewGame, proceedToNextScene,
\* selectChoice and resetGame calls, overlapping ones included, isLoading is
\* true exactly while at least one call awaits the transport or a retry
\* delay.
C37_LoadingIffInFlight ==
    gameState.isLoading <=> ops # <<>>

====
